---------------------------- MODULE Spec2Model ----------------------------
(***************************************************************************)
(* A model of FortiCfgParser: the lexer and the recursive-descent parser   *)
(* of _parser.py, the node tree, its traversal and the serializer of       *)
(* _config.py.                                                             *)
(*                                                                         *)
(* A text is a sequence of characters (strings of length one); a token is  *)
(* a sequence of characters as well, as a Python str is.  An ordered       *)
(* dictionary (dict) is a sequence of [k, v] records in insertion order.   *)
(***************************************************************************)
EXTENDS Integers, Sequences, FiniteSets, TLC

(***************************************************************************)
(* Characters and tokens                                                   *)
(***************************************************************************)
EOS == ""
EOL == "\n"
QUOTE == "\""
BSL == "\\"
SP == " "

EosToken == << >>
EolToken == <<EOL>>

kw_config == <<"c", "o", "n", "f", "i", "g">>
kw_edit == <<"e", "d", "i", "t">>
kw_next == <<"n", "e", "x", "t">>
kw_end == <<"e", "n", "d">>
kw_set == <<"s", "e", "t">>
kw_unset == <<"u", "n", "s", "e", "t">>
VDOM == <<"v", "d", "o", "m">>
GLOBAL == <<"g", "l", "o", "b", "a", "l">>

\* str.isspace() on one character; the end of stream '' is not a space
IsSpace(c) == c \in {" ", "\n", "\t"}

\* Lexer._is_eol / Lexer.is_eos on a character
IsEolChar(c) == c \in {EOL, EOS}
IsEosChar(c) == c = EOS

\* Lexer._is_eol / Lexer.is_eos / Lexer.is_comment on a token
IsEol(token) == token \in {EolToken, EosToken}
IsEos(token) == token = EosToken
IsComment(token) == token[1] = "#"

\* str.startswith
StartsWith(s, p) == Len(s) >= Len(p) /\ SubSeq(s, 1, Len(p)) = p

RECURSIVE JoinWith(_, _)
\* sep.join(parts)
JoinWith(parts, sep) ==
    IF parts = << >> THEN << >>
    ELSE IF Len(parts) = 1 THEN parts[1]
    ELSE parts[1] \o sep \o JoinWith(Tail(parts), sep)

(***************************************************************************)
(* Lexer.  The state of a lexer: the stream and the number of characters   *)
(* read from it, the character put back by _unget (none or one), the token *)
(* put back by push_token (none or one).  pushes is a history variable: the *)
(* number of characters read when push_token was called, one per call.     *)
(* eos is a history variable: TRUE once stream.read(1) has returned the    *)
(* empty string.  last and log are history variables: the token that       *)
(* next_token returned last with the number of characters read then, and   *)
(* the calls of push_token and the calls of next_token that returned a     *)
(* pushed token, in order.                                                 *)
(***************************************************************************)
LexerInit(input_stream) ==
    [stream |-> input_stream, i |-> 0, char |-> << >>, token |-> << >>, pushes |-> << >>,
     eos |-> FALSE, last |-> << >>, log |-> << >>]

\* a call of push_token or of next_token on the lexer L, for the history
Logged(L, op, token) ==
    [op |-> op, token |-> token, i |-> L.i, full |-> L.token # << >>, returned |-> L.last]

\* Lexer._next: the character put back if any, else stream.read(1)
NextChar(L) ==
    IF L.char # << >>
    THEN [c |-> L.char[1], lex |-> [L EXCEPT !.char = << >>]]
    ELSE IF L.i < Len(L.stream)
         THEN [c |-> L.stream[L.i + 1], lex |-> [L EXCEPT !.i = L.i + 1]]
         ELSE [c |-> EOS, lex |-> [L EXCEPT !.eos = TRUE]]

\* Lexer._unget
Unget(L, c) == [L EXCEPT !.char = <<c>>]

RECURSIVE NextNs(_)
\* Lexer._next_ns
NextNs(L) ==
    LET r == NextChar(L)
    IN  IF IsSpace(r.c) /\ ~IsEolChar(r.c) THEN NextNs(r.lex) ELSE r

\* a faulty push_token: the call is made but the token is not kept
PushTokenLost(L, token) == [L EXCEPT !.pushes = Append(L.pushes, L.i)]

\* Lexer.push_token
PushToken(L, token) ==
    [L EXCEPT !.token = <<token>>, !.pushes = Append(L.pushes, L.i),
              !.log = Append(L.log, Logged(L, "push", token))]

RECURSIVE CommentLoop(_, _, _)
\* next_token, the comment branch: fill the token until an end of line
CommentLoop(L, token, c) ==
    IF IsEolChar(c) THEN [err |-> "", token |-> token, lex |-> L]
    ELSE LET r == NextChar(L) IN CommentLoop(r.lex, Append(token, c), r.c)

RECURSIVE QuoteLoopPlain(_, _)
\* a faulty quoted string branch: a backslash is a character like any other
QuoteLoopPlain(L, token) ==
    LET r == NextChar(L)
    IN  IF IsEosChar(r.c)
        THEN [err |-> "unbalanced quote", token |-> token, lex |-> r.lex]
        ELSE IF r.c = QUOTE
        THEN [err |-> "", token |-> Append(token, r.c), lex |-> r.lex]
        ELSE QuoteLoopPlain(r.lex, Append(token, r.c))

RECURSIVE QuoteLoop(_, _)
\* next_token, the quoted string branch
QuoteLoop(L, token) ==
    LET r == NextChar(L)
    IN  IF IsEosChar(r.c)
        THEN [err |-> "unbalanced quote", token |-> token, lex |-> r.lex]
        ELSE IF r.c = BSL
        THEN LET r2 == NextChar(r.lex)
             IN  IF IsEosChar(r2.c)
                 THEN [err |-> "escape error", token |-> token, lex |-> r2.lex]
                 ELSE QuoteLoop(r2.lex, token \o <<r.c, r2.c>>)
        ELSE IF r.c = QUOTE
        THEN [err |-> "", token |-> Append(token, r.c), lex |-> r.lex]
        ELSE QuoteLoop(r.lex, Append(token, r.c))

RECURSIVE WordLoop(_, _, _)
\* next_token, the word branch: fill until a space is found, put it back
WordLoop(L, token, c) ==
    IF IsSpace(c) \/ IsEolChar(c)
    THEN [err |-> "", token |-> token, lex |-> Unget(L, c)]
    ELSE LET r == NextChar(L) IN WordLoop(r.lex, Append(token, c), r.c)

\* next_token, from the first character r.c that is no space
TokenFrom(r) ==
    IF IsEosChar(r.c) THEN [err |-> "", token |-> EosToken, lex |-> r.lex]
    ELSE IF IsEolChar(r.c) THEN [err |-> "", token |-> EolToken, lex |-> r.lex]
    ELSE IF r.c = "#" THEN CommentLoop(r.lex, << >>, r.c)
    ELSE IF r.c = QUOTE THEN QuoteLoop(r.lex, <<r.c>>)
    ELSE WordLoop(r.lex, << >>, r.c)

\* a faulty next_token: the pushed token stays in its slot
PoppedKept(L) == [L EXCEPT !.log = Append(L.log, Logged(L, "pop", L.token[1]))]

\* next_token, the pushed token taken from its slot
Popped(L) == [L EXCEPT !.token = << >>, !.log = Append(L.log, Logged(L, "pop", L.token[1]))]

\* next_token, its return: r is the token and the lexer, or the exception
Returned(r) ==
    IF r.err # "" THEN r
    ELSE [r EXCEPT !.lex.last = <<[token |-> r.token, i |-> r.lex.i]>>]

\* Lexer.next_token
NextToken(L) ==
    Returned(IF L.token # << >>
             THEN [err |-> "", token |-> L.token[1], lex |-> Popped(L)]
             ELSE TokenFrom(NextNs(L)))

RECURSIVE ParametersLoop(_, _)
\* Lexer.next_parameters, its loop: r is what next_token returned
ParametersLoop(r, tokens) ==
    IF r.err # "" THEN [err |-> r.err, tokens |-> tokens, lex |-> r.lex]
    ELSE IF IsEol(r.token) THEN [err |-> "", tokens |-> tokens, lex |-> r.lex]
    ELSE IF IsComment(r.token)
    THEN [err |-> "unexpected comment", tokens |-> tokens, lex |-> r.lex]
    ELSE ParametersLoop(NextToken(r.lex), Append(tokens, r.token))

\* Lexer.next_parameters: all tokens on the current line
NextParameters(L) == ParametersLoop(NextToken(L), << >>)

RECURSIVE SnlLoop(_)
\* next_snl_token, its loop: skip the end of line tokens; r is what
\* next_token returned
SnlLoop(r) ==
    IF r.err # "" THEN r
    ELSE IF IsEol(r.token) /\ ~IsEos(r.token) THEN SnlLoop(NextToken(r.lex))
    ELSE r

\* a faulty next_snl_token: the end of the stream is returned, never raised
RaiseEosNever(r, raise_eos) == r

\* next_snl_token, the test that follows the loop
RaiseEos(r, raise_eos) ==
    IF r.err # "" THEN r
    ELSE IF raise_eos /\ IsEos(r.token) THEN [r EXCEPT !.err = "eos"]
    ELSE r

\* Lexer.next_snl_token
NextSnlToken(L, raise_eos) == RaiseEos(SnlLoop(NextToken(L)), raise_eos)

(***************************************************************************)
(* Node tree.  A node is a record: its kind, the parameters of a Set, the  *)
(* items of an Object, a Table or a Root (a dict of key and node).         *)
(***************************************************************************)
FgtConfigSet(parameters) == [kind |-> "Set", params |-> parameters, items |-> << >>]
FgtConfigUnset == [kind |-> "Unset", params |-> << >>, items |-> << >>]
FgtConfigObject(d) == [kind |-> "Object", params |-> << >>, items |-> d]
FgtConfigTable(d) == [kind |-> "Table", params |-> << >>, items |-> d]
\* FgtConfigRoot(a_map): a Root holding a copy of the items of a_map
FgtConfigRoot(a_map) == [kind |-> "Root", params |-> << >>, items |-> a_map.items]

\* isinstance(value, FgtConfigObject): a Root is an Object, a Table is not
IsObject(value) == value.kind \in {"Object", "Root"}
IsBody(value) == value.kind \in {"Object", "Root", "Table"}

\* dict: key in d, d[key], d[key] = value (a new key goes last, a key that is
\* present keeps its place and takes the new value)
HasKey(d, key) == \E n \in 1..Len(d) : d[n].k = key
DictGet(d, key) == d[CHOOSE n \in 1..Len(d) : d[n].k = key].v
\* a faulty d[key] = value: a key that is present keeps its value
DictSetFirst(d, key, value) ==
    IF HasKey(d, key) THEN d ELSE Append(d, [k |-> key, v |-> value])

\* a faulty d[key] = value: a key that is present moves to the end
DictSetLast(d, key, value) ==
    Append(SelectSeq(d, LAMBDA e : e.k # key), [k |-> key, v |-> value])

DictSet(d, key, value) ==
    IF HasKey(d, key)
    THEN [n \in 1..Len(d) |-> IF d[n].k = key THEN [k |-> key, v |-> value] ELSE d[n]]
    ELSE Append(d, [k |-> key, v |-> value])
Keys(d) == [n \in 1..Len(d) |-> d[n].k]

(***************************************************************************)
(* Parser.  Every parsing operator returns a record with err, the name of  *)
(* the exception raised ("" when none), and the lexer after the call.      *)
(***************************************************************************)
Fail(e, L) == [err |-> e, lex |-> L, key |-> << >>, node |-> FgtConfigUnset]
Done(L, key, node) == [err |-> "", lex |-> L, key |-> key, node |-> node]

\* a faulty _parse_set_command: a name without a value is accepted
SetCommandLoose(p) ==
    IF p.err # "" THEN Fail(p.err, p.lex)
    ELSE IF Len(p.tokens) < 1 THEN Fail("invalid set command", p.lex)
    ELSE Done(p.lex, p.tokens[1], FgtConfigSet(Tail(p.tokens)))

\* _parse_set_command, given the tokens p of the line
SetCommand(p) ==
    IF p.err # "" THEN Fail(p.err, p.lex)
    ELSE IF Len(p.tokens) < 2 THEN Fail("invalid set command", p.lex)
    ELSE Done(p.lex, p.tokens[1], FgtConfigSet(Tail(p.tokens)))

\* FgtConfigParser._parse_set_command
ParseSetCommand(L) == SetCommand(NextParameters(L))

\* _parse_unset_command, given the tokens p of the line
UnsetCommand(p) ==
    IF p.err # "" THEN Fail(p.err, p.lex)
    ELSE IF Len(p.tokens) # 1 THEN Fail("invalid unset command", p.lex)
    ELSE Done(p.lex, p.tokens[1], FgtConfigUnset)

\* FgtConfigParser._parse_unset_command
ParseUnsetCommand(L) == UnsetCommand(NextParameters(L))

RECURSIVE ParseConfig(_)
RECURSIVE ParseConfigCommand(_, _)
RECURSIVE EntryLoop(_, _, _, _)
RECURSIVE EntryAdd(_, _, _, _)
RECURSIVE ParseTableEntry(_, _)
RECURSIVE TableLoop(_, _, _)
RECURSIVE TableAdd(_, _, _)
RECURSIVE ObjectLoop(_, _, _)
RECURSIVE ObjectAdd(_, _, _)

\* FgtConfigParser._parse_config_command
ParseConfigCommand(entry, L) ==
    IF entry = kw_set THEN ParseSetCommand(L)
    ELSE IF entry = kw_unset THEN ParseUnsetCommand(L)
    ELSE IF entry = kw_config THEN ParseConfig(L)
    ELSE Fail("invalid entry", L)

\* _parse_table_entry, its loop and what follows it: t is what next_snl_token
\* returned; parse until the next keyword, or the end keyword in a vdom table,
\* which is then pushed back
EntryLoop(t, vdom, edit_key, config) ==
    IF t.err # "" THEN Fail(t.err, t.lex)
    ELSE IF t.token = kw_next THEN Done(t.lex, edit_key, FgtConfigObject(config))
    ELSE IF vdom /\ t.token = kw_end
    THEN Done(PushToken(t.lex, t.token), edit_key, FgtConfigObject(config))
    ELSE EntryAdd(ParseConfigCommand(t.token, t.lex), vdom, edit_key, config)

\* the body of that loop: c is what _parse_config_command returned
EntryAdd(c, vdom, edit_key, config) ==
    IF c.err # "" THEN c
    ELSE EntryLoop(NextSnlToken(c.lex, TRUE), vdom, edit_key, DictSet(config, c.key, c.node))

\* _parse_table_entry, given the tokens edit_key of the line
TableEntry(edit_key, vdom) ==
    IF edit_key.err # "" THEN Fail(edit_key.err, edit_key.lex)
    ELSE IF Len(edit_key.tokens) # 1
    THEN Fail("invalid table configuration", edit_key.lex)
    ELSE EntryLoop(NextSnlToken(edit_key.lex, TRUE), vdom, edit_key.tokens[1], << >>)

\* FgtConfigParser._parse_table_entry
ParseTableEntry(L, vdom) == TableEntry(NextParameters(L), vdom)

\* _parse_config, the loop of a table: t is what next_snl_token returned
TableLoop(t, config_keys, config) ==
    IF t.err # "" THEN Fail(t.err, t.lex)
    ELSE IF t.token = kw_end
    THEN Done(t.lex, JoinWith(config_keys, <<SP>>), FgtConfigTable(config))
    ELSE TableAdd(ParseTableEntry(t.lex, config_keys[1] = VDOM), config_keys, config)

\* the body of that loop: e is what _parse_table_entry returned
TableAdd(e, config_keys, config) ==
    IF e.err # "" THEN e
    ELSE TableLoop(NextSnlToken(e.lex, TRUE), config_keys, DictSet(config, e.key, e.node))

\* a faulty loop of an object: what it returns is a Table
ObjectLoopTable(t, config_keys, config) ==
    IF t.err # "" THEN Fail(t.err, t.lex)
    ELSE IF t.token = kw_end
    THEN Done(t.lex, JoinWith(config_keys, <<SP>>), FgtConfigTable(config))
    ELSE ObjectAdd(ParseConfigCommand(t.token, t.lex), config_keys, config)

\* _parse_config, the loop of an object: t is what next_snl_token returned
ObjectLoop(t, config_keys, config) ==
    IF t.err # "" THEN Fail(t.err, t.lex)
    ELSE IF t.token = kw_end
    THEN Done(t.lex, JoinWith(config_keys, <<SP>>), FgtConfigObject(config))
    ELSE ObjectAdd(ParseConfigCommand(t.token, t.lex), config_keys, config)

\* the body of that loop: c is what _parse_config_command returned
ObjectAdd(c, config_keys, config) ==
    IF c.err # "" THEN c
    ELSE ObjectLoop(NextSnlToken(c.lex, TRUE), config_keys, DictSet(config, c.key, c.node))

\* _parse_config, given the first token t after the line of the config keys
ConfigBody(t, config_keys) ==
    IF t.err = "" /\ t.token = kw_edit
    THEN TableLoop(t, config_keys, << >>)
    ELSE ObjectLoop(t, config_keys, << >>)

\* _parse_config, given the tokens config_keys of the line
ConfigKeys(config_keys) ==
    IF config_keys.err # "" THEN Fail(config_keys.err, config_keys.lex)
    ELSE IF Len(config_keys.tokens) = 0 THEN Fail("invalid config", config_keys.lex)
    ELSE ConfigBody(NextSnlToken(config_keys.lex, TRUE), config_keys.tokens)

\* FgtConfigParser._parse_config
ParseConfig(L) == ConfigKeys(NextParameters(L))

(***************************************************************************)
(* FgtConfigComments and FgtConfig                                         *)
(***************************************************************************)
VersionPrefix ==
    <<"#", "c", "o", "n", "f", "i", "g", "-", "v", "e", "r", "s", "i", "o", "n", "=">>

\* s.index(c) - 1 when c is in s (the number of characters before the first
\* c), else -1, where str.index raises ValueError
Find(s, c) ==
    IF \E n \in 1..Len(s) : s[n] = c
    THEN (CHOOSE n \in 1..Len(s) : s[n] = c /\ \A m \in 1..(n - 1) : s[m] # c) - 1
    ELSE -1

\* s.split(sep)[0]
SplitFirst(s, sep) == IF Find(s, sep) < 0 THEN s ELSE SubSeq(s, 1, Find(s, sep))

RECURSIVE ConfigVersionLoop(_, _)
ConfigVersionLoop(comments, version) ==
    IF comments = << >> THEN version
    ELSE ConfigVersionLoop(Tail(comments),
            IF StartsWith(comments[1], VersionPrefix)
            THEN SplitFirst(SubSeq(comments[1], 17, Len(comments[1])), ":")
            ELSE version)

\* FgtConfigComments._config_version()[0]
ConfigVersion(comments) == ConfigVersionLoop(comments, <<"?", "-", "?">>)

\* FgtConfigComments.version, given _config_version()[0]: err is "ValueError"
\* when index('-') raises
VersionOf(config_version) ==
    IF Find(config_version, "-") < 0 THEN [err |-> "ValueError", value |-> << >>]
    ELSE [err |-> "",
          value |-> SubSeq(config_version, Find(config_version, "-") + 2, Len(config_version))]

\* FgtConfigComments.version
Version(comments) == VersionOf(ConfigVersion(comments))

\* FgtConfigParser._create_root_config, the default root factory
CreateRootConfig(version, a_map) == FgtConfigRoot(a_map)

indent == 4

NoConfig == [comments |-> << >>, root |-> FgtConfigRoot(FgtConfigObject(<< >>)), vdoms |-> << >>]

\* FgtConfig.__init__: err is "ValueError" when a value of root is no Object or Table
FgtConfig(comments, root, vdoms) ==
    IF \A n \in 1..Len(root.items) : IsBody(root.items[n].v)
    THEN [err |-> "", config |-> [comments |-> comments, root |-> root, vdoms |-> vdoms]]
    ELSE [err |-> "ValueError", config |-> NoConfig]

(***************************************************************************)
(* FgtConfigParser.parse.  assigned is a history variable: the (tenant,    *)
(* Object) pairs assigned to vdoms_config, in the order of the assignments. *)
(***************************************************************************)
ParseFail(e, L) == [err |-> e, config |-> NoConfig, lex |-> L, assigned |-> << >>, top |-> << >>]

RECURSIVE ParseComments(_, _)
\* parse, the loop over the leading comments: t is what next_snl_token returned
ParseComments(t, comments) ==
    IF t.err = "" /\ StartsWith(t.token, <<"#">>)
    THEN ParseComments(NextSnlToken(t.lex, FALSE), Append(comments, t.token))
    ELSE [err |-> t.err, token |-> t.token, lex |-> t.lex, comments |-> comments]

RECURSIVE VdomItems(_, _, _, _)
\* parse, the loop over the entries of a top-level `config vdom`; version is
\* comments.version, read when the factory is called
VdomItems(items, version, vdoms_config, assigned) ==
    IF items = << >> THEN [err |-> "", vdoms |-> vdoms_config, assigned |-> assigned]
    ELSE IF ~IsObject(items[1].v)
    THEN [err |-> "TypeError", vdoms |-> vdoms_config, assigned |-> assigned]
    ELSE IF version.err # ""
    THEN [err |-> version.err, vdoms |-> vdoms_config, assigned |-> assigned]
    ELSE VdomItems(Tail(items), version,
                   DictSet(vdoms_config, items[1].k,
                           CreateRootConfig(version.value, items[1].v)),
                   Append(assigned, items[1]))

\* parse, its return statement: c is what FgtConfig(...) gave
Return(c, L, global_config, assigned) ==
    [err |-> c.err, config |-> c.config, lex |-> L, assigned |-> assigned,
     top |-> global_config]

\* parse, the construction of the FgtConfig from config_section
Construct(version, config_section, L, comments, global_config, vdoms_config, assigned) ==
    IF version.err # "" THEN ParseFail(version.err, L)
    ELSE Return(FgtConfig(comments, CreateRootConfig(version.value, config_section),
                          vdoms_config),
                L, global_config, assigned)

\* parse, what follows the loop over the config statements
ParseFinish(L, comments, global_config, vdoms_config, assigned) ==
    IF Len(vdoms_config) = 0
    THEN Construct(Version(comments), FgtConfigObject(global_config),
                   L, comments, global_config, vdoms_config, assigned)
    ELSE IF ~HasKey(global_config, GLOBAL) THEN ParseFail("KeyError", L)
    ELSE Construct(Version(comments), DictGet(global_config, GLOBAL),
                   L, comments, global_config, vdoms_config, assigned)

RECURSIVE ParseStatements(_, _, _, _, _)
RECURSIVE ConfigStatement(_, _, _, _, _)
RECURSIVE VdomStatement(_, _, _, _)

\* parse, the loop over the config statements: t is what next_snl_token returned
ParseStatements(t, comments, global_config, vdoms_config, assigned) ==
    IF t.err # "" THEN ParseFail(t.err, t.lex)
    ELSE IF IsEos(t.token)
    THEN ParseFinish(t.lex, comments, global_config, vdoms_config, assigned)
    ELSE IF t.token # kw_config THEN ParseFail("invalid entry", t.lex)
    ELSE ConfigStatement(ParseConfig(t.lex), comments, global_config, vdoms_config, assigned)

\* the body of that loop: c is what _parse_config returned
ConfigStatement(c, comments, global_config, vdoms_config, assigned) ==
    IF c.err # "" THEN ParseFail(c.err, c.lex)
    ELSE IF c.key = VDOM
    THEN VdomStatement(VdomItems(c.node.items, Version(comments), vdoms_config, assigned),
                       c.lex, comments, global_config)
    ELSE ParseStatements(NextSnlToken(c.lex, FALSE), comments,
                         DictSet(global_config, c.key, c.node), vdoms_config, assigned)

\* the end of that body when a vdom is detected: v is what the loop over the
\* entries gave
VdomStatement(v, L, comments, global_config) ==
    IF v.err # "" THEN ParseFail(v.err, L)
    ELSE ParseStatements(NextSnlToken(L, FALSE), comments, global_config,
                         v.vdoms, v.assigned)

\* parse, from the first token c that is no comment
Statements(c) == ParseStatements(c, c.comments, << >>, << >>, << >>)

\* FgtConfigParser.parse (parse_config: the stream is the given string)
Parse(input_stream) ==
    Statements(ParseComments(NextSnlToken(LexerInit(input_stream), FALSE), << >>))

\* the class of the exception that leaves parse
SyntaxErrors ==
    {"unbalanced quote", "escape error", "unexpected comment", "invalid set command",
     "invalid unset command", "invalid entry", "invalid table configuration",
     "invalid config"}
ExceptionClass(err) ==
    IF err = "eos" THEN "FgtConfigEosError"
    ELSE IF err \in SyntaxErrors THEN "FgtConfigSyntaxError"
    ELSE err

(***************************************************************************)
(* Traversal.  traverse returns the calls made to the callback fn, in      *)
(* order, each with its four arguments, and the stack as it leaves it.     *)
(***************************************************************************)
Call(enter, key, node, parents, data) ==
    [enter |-> enter, item |-> [k |-> key, v |-> node], parents |-> parents, data |-> data]

\* deque.append and deque.pop on the stack of parents
Push(parents, key, node) == Append(parents, [k |-> key, v |-> node])
\* a faulty pop: the stack keeps its last pair
PopNone(parents) == parents
Pop(parents) == SubSeq(parents, 1, Len(parents) - 1)

RECURSIVE Traverse(_, _, _, _)
RECURSIVE TraverseItems(_, _, _, _)
RECURSIVE TraverseRest(_, _, _, _)

\* the for loop of FgtConfigBody.traverse and of FgtConfigRoot.traverse; calls
\* are the calls made before it
TraverseItems(items, parents, data, calls) ==
    IF items = << >> THEN [calls |-> calls, parents |-> parents]
    ELSE TraverseRest(Traverse(items[1].k, items[1].v, parents, data),
                      Tail(items), data, calls)

\* the rest of that loop: first is the traversal of the first item
TraverseRest(first, items, data, calls) ==
    TraverseItems(items, first.parents, data, calls \o first.calls)

\* FgtConfigSet.traverse and FgtConfigUnset.traverse
TraverseLeaf(key, node, parents, data) ==
    [calls |-> <<Call(TRUE, key, node, parents, data)>>, parents |-> parents]

\* a faulty leave of the config section: the stack is popped, fn is not called
LeaveSilent(inner, key, node, data) ==
    [calls |-> inner.calls, parents |-> Pop(inner.parents)]

\* FgtConfigBody.traverse, leaving the config section: inner is the traversal
\* of the items
Leave(inner, key, node, data) ==
    [calls |-> Append(inner.calls, Call(FALSE, key, node, Pop(inner.parents), data)),
     parents |-> Pop(inner.parents)]

\* FgtConfigBody.traverse
TraverseBody(key, node, parents, data) ==
    Leave(TraverseItems(node.items, Push(parents, key, node), data,
                        <<Call(TRUE, key, node, parents, data)>>),
          key, node, data)

\* FgtConfigRoot.traverse
TraverseRoot(key, node, parents, data) == TraverseItems(node.items, parents, data, << >>)

\* node.traverse(key, fn, parents, data), dispatched on the class of node
Traverse(key, node, parents, data) ==
    IF node.kind \in {"Set", "Unset"} THEN TraverseLeaf(key, node, parents, data)
    ELSE IF node.kind = "Root" THEN TraverseRoot(key, node, parents, data)
    ELSE TraverseBody(key, node, parents, data)

(***************************************************************************)
(* Serializer.  A filter callback is one of the names of Filters; "none"   *)
(* is no callback (item_filter is None).                                   *)
(***************************************************************************)
Filters == {"none", "always", "never", "leaves", "nested"}

\* item_filter(item, parents, data) for the filter callback named f
ItemFilter(f, item, parents, data) ==
    CASE f = "always" -> TRUE
      [] f = "never" -> FALSE
      [] f = "leaves" -> item.v.kind \in {"Set", "Unset"}
      [] f = "nested" -> Len(parents) > 0

RECURSIVE Spaces(_)
\* ' ' * n
Spaces(n) == IF n <= 0 THEN << >> ELSE <<SP>> \o Spaces(n - 1)

\* make_config.append_entry, the test that skips the item
SkipEntry(f, item, parents, data) == f # "none" /\ ~ItemFilter(f, item, parents, data)

\* a faulty line of an item: the test on the class of the parent is inverted
EntryLineInverted(begin_of_section, key, value, parents) ==
    IF value.kind = "Set"
    THEN kw_set \o <<SP>> \o key \o <<SP>> \o JoinWith(value.params, <<SP>>)
    ELSE IF value.kind = "Unset"
    THEN kw_unset \o <<SP>> \o key
    ELSE IF Len(parents) # 0 /\ IsObject(parents[Len(parents)].v)
    THEN (IF begin_of_section THEN kw_edit \o <<SP>> \o key ELSE kw_next)
    ELSE (IF begin_of_section THEN kw_config \o <<SP>> \o key ELSE kw_end)

\* make_config.append_entry, the line of an item
EntryLine(begin_of_section, key, value, parents) ==
    IF value.kind = "Set"
    THEN kw_set \o <<SP>> \o key \o <<SP>> \o JoinWith(value.params, <<SP>>)
    ELSE IF value.kind = "Unset"
    THEN kw_unset \o <<SP>> \o key
    ELSE IF Len(parents) = 0 \/ IsObject(parents[Len(parents)].v)
    THEN (IF begin_of_section THEN kw_config \o <<SP>> \o key ELSE kw_end)
    ELSE (IF begin_of_section THEN kw_edit \o <<SP>> \o key ELSE kw_next)

\* a faulty append_entry: an item below an omitted Object or Table is omitted
\* with it
AppendEntryPruned(f, data, begin_of_section, item, parents, output_list) ==
    IF \/ SkipEntry(f, item, parents, data)
       \/ \E n \in 1..Len(parents) : SkipEntry(f, parents[n], SubSeq(parents, 1, n - 1), data)
    THEN output_list
    ELSE Append(output_list,
                Spaces(Len(parents) * indent)
                \o EntryLine(begin_of_section, item.k, item.v, parents))

\* make_config.append_entry
AppendEntry(f, data, begin_of_section, item, parents, output_list) ==
    IF SkipEntry(f, item, parents, data) THEN output_list
    ELSE Append(output_list,
                Spaces(Len(parents) * indent)
                \o EntryLine(begin_of_section, item.k, item.v, parents))

RECURSIVE AppendEntries(_, _, _, _)
\* the calls of a traversal applied to append_entry, in order
AppendEntries(f, data, calls, output_list) ==
    IF calls = << >> THEN output_list
    ELSE AppendEntries(f, data, Tail(calls),
            AppendEntry(f, data, calls[1].enter, calls[1].item, calls[1].parents, output_list))

\* root.traverse('', append_entry, deque(), output) in make_config
Emit(f, data, root, output) ==
    AppendEntries(f, data, Traverse(<< >>, root, << >>, output).calls, output)

RECURSIVE DeclareVdomsOpen(_, _)
\* a faulty declaration of the vdoms: the `next` lines are not written
DeclareVdomsOpen(vdoms, output) ==
    IF vdoms = << >> THEN output
    ELSE DeclareVdomsOpen(Tail(vdoms), Append(output, kw_edit \o <<SP>> \o vdoms[1].k))

RECURSIVE DeclareVdoms(_, _)
\* make_config, the loop that declares the vdoms
DeclareVdoms(vdoms, output) ==
    IF vdoms = << >> THEN output
    ELSE DeclareVdoms(Tail(vdoms), output \o <<kw_edit \o <<SP>> \o vdoms[1].k, kw_next>>)

RECURSIVE DefineVdomsOpen(_, _, _, _)
\* a faulty loop over the vdoms: the `end` line of a vdom is not written
DefineVdomsOpen(f, data, vdoms, output) ==
    IF vdoms = << >> THEN output
    ELSE DefineVdomsOpen(f, data, Tail(vdoms),
            Append(Emit(f, data, vdoms[1].v,
                        output \o <<kw_config \o <<SP>> \o VDOM,
                                    kw_edit \o <<SP>> \o vdoms[1].k>>),
                   << >>))

RECURSIVE DefineVdoms(_, _, _, _)
\* make_config, the loop that writes the configuration of every vdom
DefineVdoms(f, data, vdoms, output) ==
    IF vdoms = << >> THEN output
    ELSE DefineVdoms(f, data, Tail(vdoms),
            Emit(f, data, vdoms[1].v,
                 output \o <<kw_config \o <<SP>> \o VDOM, kw_edit \o <<SP>> \o vdoms[1].k>>)
            \o <<kw_end, << >> >>)

\* FgtConfig.has_vdom
HasVdom(config) == Len(config.vdoms) > 0

\* FgtConfig.make_config
MakeConfig(config, f, data) ==
    IF HasVdom(config)
    THEN DefineVdoms(f, data, config.vdoms,
            Emit(f, data, config.root,
                 DeclareVdoms(config.vdoms, << << >>, kw_config \o <<SP>> \o VDOM>>)
                 \o <<kw_end, << >>, kw_config \o <<SP>> \o GLOBAL>>)
            \o <<kw_end, << >> >>)
    ELSE Emit(f, data, config.root, << >>)

\* a faulty write: the comments are written twice
WriteTwice(config, include_comments, f, data) ==
    (IF include_comments /\ Len(config.comments) > 0
     THEN JoinWith(config.comments \o config.comments, <<EOL>>) \o <<EOL>>
     ELSE << >>)
    \o JoinWith(MakeConfig(config, f, data), <<EOL>>) \o <<EOL>>

\* FgtConfig.write: the text written to the file
Write(config, include_comments, f, data) ==
    (IF include_comments /\ Len(config.comments) > 0
     THEN JoinWith(config.comments, <<EOL>>) \o <<EOL>>
     ELSE << >>)
    \o JoinWith(MakeConfig(config, f, data), <<EOL>>) \o <<EOL>>

(***************************************************************************)
(* uqs and qus                                                             *)
(***************************************************************************)
RECURSIVE Replace(_, _, _)
\* s.replace(old, new): the occurrences of old, found from left to right
\* without overlap, replaced by new
Replace(s, old, new) ==
    IF Len(s) < Len(old) THEN s
    ELSE IF SubSeq(s, 1, Len(old)) = old
    THEN new \o Replace(SubSeq(s, Len(old) + 1, Len(s)), old, new)
    ELSE <<s[1]>> \o Replace(Tail(s), old, new)

\* uqs
\* s[1:-1]
Inside(s) == SubSeq(s, 2, Len(s) - 1)

\* uqs
uqs(arg) ==
    IF Len(arg) < 2 THEN arg
    ELSE IF arg[1] # QUOTE \/ arg[Len(arg)] # QUOTE THEN arg
    ELSE Inside(Replace(Replace(arg, <<BSL, QUOTE>>, <<QUOTE>>), <<BSL, BSL>>, <<BSL>>))

\* a faulty qus: the quotes are escaped before the backslashes
qusQuotesFirst(arg) ==
    <<QUOTE>> \o Replace(Replace(arg, <<QUOTE>>, <<BSL, QUOTE>>), <<BSL>>, <<BSL, BSL>>)
    \o <<QUOTE>>

\* qus
qus(arg) ==
    <<QUOTE>> \o Replace(Replace(arg, <<BSL>>, <<BSL, BSL>>), <<QUOTE>>, <<BSL, QUOTE>>)
    \o <<QUOTE>>

(***************************************************************************)
(* TestConfig: the comparison of two texts, line by line                   *)
(***************************************************************************)
RECURSIVE SplitLines(_)
\* text.split("\n")
SplitLines(text) ==
    IF Find(text, EOL) < 0 THEN <<text>>
    ELSE <<SubSeq(text, 1, Find(text, EOL))>>
         \o SplitLines(SubSeq(text, Find(text, EOL) + 2, Len(text)))

RECURSIVE LStrip(_)
LStrip(line) == IF line # << >> /\ IsSpace(line[1]) THEN LStrip(Tail(line)) ELSE line
RECURSIVE RStrip(_)
RStrip(line) ==
    IF line # << >> /\ IsSpace(line[Len(line)])
    THEN RStrip(SubSeq(line, 1, Len(line) - 1)) ELSE line

\* line.strip()
Strip(line) == RStrip(LStrip(line))

StripAll(lines) == [n \in 1..Len(lines) |-> Strip(lines[n])]

(***************************************************************************)
(* The texts given to the parser.  A text is typed piece by piece; a piece *)
(* is one line or a few lines of a configuration file.                     *)
(***************************************************************************)
MaxPieces == 5
MaxStrLen == 4

Line(tokens) == JoinWith(tokens, <<SP>>) \o <<EOL>>

Word(c) == <<c>>

VersionComment ==
    VersionPrefix \o <<"F", "-", "7", ":", "o">> \o <<EOL>>
BadVersionComment ==
    VersionPrefix \o <<"F", "7">> \o <<EOL>>
ConfigA == Line(<<kw_config, Word("a")>>)
ConfigVdom == Line(<<kw_config, VDOM>>)
ConfigGlobal == Line(<<kw_config, GLOBAL>>)
EditA == Line(<<kw_edit, Word("a")>>)
EditB == Line(<<kw_edit, Word("b")>>)
SetX == <<SP, SP>> \o Line(<<kw_set, Word("x"), Word("1"), <<QUOTE, "q", QUOTE>> >>)
UnsetY == Line(<<kw_unset, Word("y")>>)
NextLine == Line(<<kw_next>>)
EndLine == Line(<<kw_end>>)
VdomA == ConfigVdom \o EditA
VdomB == ConfigVdom \o EditB
GlobalBlock == ConfigGlobal \o <<EOL>> \o EndLine
DeclareAB == ConfigVdom \o EditA \o NextLine \o EditB \o NextLine \o EndLine
Preamble == <<EOL>> \o DeclareAB \o <<EOL>> \o GlobalBlock

ConfigAB == Line(<<kw_config, Word("a"), Word("b")>>)

Pieces ==
    {VersionComment, BadVersionComment, ConfigA, ConfigAB, ConfigVdom, ConfigGlobal, EditA,
     EditB, SetX, UnsetY, NextLine, EndLine, VdomA, VdomB, Preamble}

\* the errors that more text can still avoid: the stream ended too early, or
\* a tenant is declared and `config global` is still to come
Unfinished == {"", "eos", "unbalanced quote", "escape error", "KeyError"}

\* the lines of text that open a block or an entry, less those that close one
Opened(lines) ==
    Cardinality({n \in 1..Len(lines) :
                    StartsWith(lines[n], kw_config) \/ StartsWith(lines[n], kw_edit)})
    - Cardinality({n \in 1..Len(lines) :
                    StartsWith(lines[n], kw_end) \/ StartsWith(lines[n], kw_next)})
Nesting(text) == Opened(StripAll(SplitLines(text)))

(***************************************************************************)
(* State                                                                   *)
(***************************************************************************)
VARIABLES
    input,      \* the text given to parse_config
    typed,      \* the number of pieces typed into input
    result,     \* what parse_config returned or raised for input
    pc,         \* "parsed", "written" or "traversed": the last operation
    file,       \* the text that write wrote
    opts,       \* the arguments of write: include_comments and the filter
    rewritten,  \* TRUE when input is a text that write wrote
    visit,      \* the arguments of traverse, its calls and the stack after it
    arg,        \* the argument of qus
    quoted,     \* the value of qus(arg)
    unquoted,   \* the value of uqs(quoted)
    entry,      \* the last call of c_entry: its Table, its key and its outcome
    lexed,      \* the last call of next_token: its stream and its outcome
    run,        \* the call of parse_config in progress, one loop iteration at a time
    steps       \* the number of loop iterations that call has executed

vars == <<input, typed, result, pc, file, opts, rewritten, visit, arg, quoted, unquoted,
          entry, lexed, run, steps>>

\* the keys given to c_entry: an int, a str, or a value of another type
IntKey(n) == [type |-> "int", n |-> n, s |-> << >>]
StrKey(s) == [type |-> "str", n |-> 0, s |-> s]
OtherKey == [type |-> "float", n |-> 0, s |-> << >>]

NoEntry == [table |-> FgtConfigTable(<< >>), key |-> OtherKey, err |-> "", value |-> FgtConfigUnset]
NoLexed == [stream |-> << >>, err |-> "", token |-> << >>, i |-> 0]
\* no call of parse_config in progress
NoRun ==
    [pc |-> "idle", lex |-> LexerInit(<< >>), token |-> << >>, comments |-> << >>,
     global_config |-> << >>, vdoms_config |-> << >>, assigned |-> << >>, stack |-> << >>,
     out |-> ParseFail("", LexerInit(<< >>))]
NoOpts == [include_comments |-> FALSE, f |-> "none"]
NoVisit == [start |-> [k |-> << >>, v |-> FgtConfigUnset, path |-> << >>],
            before |-> << >>, calls |-> << >>, after |-> << >>]

Init ==
    /\ input = << >>
    /\ typed = 0
    /\ result = Parse(<< >>)
    /\ pc = "parsed"
    /\ file = << >>
    /\ opts = NoOpts
    /\ rewritten = FALSE
    /\ visit = NoVisit
    /\ arg = << >>
    /\ quoted = << >>
    /\ unquoted = << >>
    /\ entry = NoEntry
    /\ lexed = NoLexed
    /\ run = NoRun
    /\ steps = 0

\* parse_config(input \o piece): the text so far and one more piece, as long as
\* the pieces left can close the blocks that the text leaves open
ParseText(piece) ==
    /\ pc = "parsed"
    /\ ~rewritten
    /\ typed < MaxPieces
    /\ result.err \in Unfinished
    /\ Nesting(input \o piece) + typed + 1 <= MaxPieces
    /\ input' = input \o piece
    /\ typed' = typed + 1
    /\ result' = Parse(input')
    /\ UNCHANGED <<pc, file, opts, rewritten, visit, arg, quoted, unquoted, entry, lexed, run, steps>>

\* config.write(file, include_comments, item_filter)
WriteFile(include_comments, f) ==
    /\ pc = "parsed"
    /\ result.err = ""
    /\ file' = Write(result.config, include_comments, f, 0)
    /\ opts' = [include_comments |-> include_comments, f |-> f]
    /\ pc' = "written"
    /\ UNCHANGED <<input, typed, result, rewritten, visit, arg, quoted, unquoted, entry, lexed, run, steps>>

\* parse_config on the text that write(include_comments=True) wrote, as it
\* is (strip is FALSE) or with every line stripped
ParseFile(strip) ==
    /\ pc = "written"
    /\ ~rewritten
    /\ opts = [include_comments |-> TRUE, f |-> "none"]
    /\ input' = IF strip THEN JoinWith(StripAll(SplitLines(file)), <<EOL>>) ELSE file
    /\ result' = Parse(input')
    /\ rewritten' = TRUE
    /\ pc' = "parsed"
    /\ file' = << >>
    /\ opts' = NoOpts
    /\ UNCHANGED <<typed, visit, arg, quoted, unquoted, entry, lexed, run, steps>>

RECURSIVE Bodies(_, _, _)
\* the Objects and Tables of the tree of node, node included, each with its key
\* and its path: the (key, node) pairs of its ancestors, from the Root down
Bodies(key, node, path) ==
    {[k |-> key, v |-> node, path |-> path]}
    \cup UNION {Bodies(node.items[n].k, node.items[n].v,
                       Append(path, [k |-> key, v |-> node])) :
                n \in {m \in 1..Len(node.items) : IsBody(node.items[m].v)}}

\* the Roots of a Configuration: the default tree and the tree of every tenant
Roots(config) == {config.root} \cup {config.vdoms[n].v : n \in 1..Len(config.vdoms)}

\* the nodes a traversal can start on: the Roots of a Configuration and the
\* Objects and Tables below them
StartNodes(config) == UNION {Bodies(<< >>, root, << >>) : root \in Roots(config)}

\* the stacks a caller passes to traverse: an empty deque, or one that holds an item
Stacks == {<< >>, <<[k |-> Word("p"), v |-> FgtConfigObject(<< >>)]>>}

UserData == "data"

\* what a traversal t from start with the stack before leaves to observe
Visit(start, before, t) ==
    [start |-> start, before |-> before, calls |-> t.calls, after |-> t.parents]

\* start.v.traverse(start.k, fn, before, data)
TraverseTree(start, before) ==
    /\ pc = "parsed"
    /\ result.err = ""
    /\ visit' = Visit(start, before, Traverse(start.k, start.v, before, UserData))
    /\ pc' = "traversed"
    /\ UNCHANGED <<input, typed, result, file, opts, rewritten, arg, quoted, unquoted, entry, lexed, run, steps>>

Next ==
    \/ \E piece \in Pieces : ParseText(piece)
    \/ \E include_comments \in BOOLEAN, f \in Filters : WriteFile(include_comments, f)
    \/ \E strip \in BOOLEAN : ParseFile(strip)
    \/ \E start \in StartNodes(result.config), before \in Stacks : TraverseTree(start, before)

Spec == Init /\ [][Next]_vars

(***************************************************************************)
(* Round trip of parse and write                                           *)
(***************************************************************************)
\* the lines of text, each stripped, as TestConfig._same_config compares them
StrippedLines(text) == StripAll(SplitLines(text))

\* write has just written result.config with its comments and without filter
WrittenWhole == pc = "written" /\ opts = [include_comments |-> TRUE, f |-> "none"]

\* C1, as first stated: for every input text that parse accepts, the lines
\* that write(include_comments=True) writes for the parsed Configuration are
\* the lines of the input, line by line over the full length of both texts,
\* each line stripped.
C1_AnyAcceptedText ==
    WrittenWhole => StrippedLines(file) = StrippedLines(input)

\* C1: for an input text that parse accepts and that is in the layout of
\* write (a text that write(include_comments=True) wrote without filter, as
\* it is or with every line stripped), the lines that
\* write(include_comments=True) writes for the parsed Configuration are the
\* lines of the input, line by line over the full length of both texts, each
\* line stripped.
C1_RoundTrip ==
    (rewritten /\ result.err = "" /\ WrittenWhole) =>
        StrippedLines(file) = StrippedLines(input)

\* a text that write wrote for a Configuration with tenants, one of them
\* with a tree that is not empty, has been parsed and written again
C1_Witness ==
    /\ rewritten
    /\ WrittenWhole
    /\ HasVdom(result.config)
    /\ \E n \in 1..Len(result.config.vdoms) : Len(result.config.vdoms[n].v.items) > 0

(***************************************************************************)
(* The filter callback of make_config and write                            *)
(***************************************************************************)
RECURSIVE Unsuppressed(_, _, _, _)
\* the lines of the calls of a traversal, those of the nodes for which the
\* filter callback f returns true left out, the others as without filter
Unsuppressed(f, data, calls, output_list) ==
    IF calls = << >> THEN output_list
    ELSE Unsuppressed(f, data, Tail(calls),
            IF ItemFilter(f, calls[1].item, calls[1].parents, data)
            THEN output_list
            ELSE AppendEntry("none", data, calls[1].enter, calls[1].item,
                             calls[1].parents, output_list))

\* C2: with a filter callback, a node for which the filter returns true is not
\* emitted (neither its enter line nor its leave line), and a node for which
\* the filter returns false is emitted exactly as it is without a filter:
\* the lines written for every tree of the Configuration are the lines of the
\* nodes for which the filter returns false.
C2_TrueSuppresses ==
    (pc = "written" /\ opts.f # "none") =>
        \A root \in Roots(result.config) :
            Emit(opts.f, 0, root, << >>)
                = Unsuppressed(opts.f, 0, Traverse(<< >>, root, << >>, << >>).calls, << >>)

(***************************************************************************)
(* The exceptions that leave parse                                         *)
(***************************************************************************)
\* C3: for every input text, parse returns a Configuration or raises
\* FgtConfigSyntaxError (FgtConfigEosError being its specialization); no other
\* kind of exception leaves parse.
C3_OnlySyntaxErrors ==
    ExceptionClass(result.err) \in {"", "FgtConfigSyntaxError", "FgtConfigEosError"}

(***************************************************************************)
(* An entry of `config vdom` that `end` closes                             *)
(***************************************************************************)
\* where the token `end` starts that push_token took when i characters had
\* been read: the character read last is the space after it, or its `d` when
\* the stream ends with it
EndStart(text, i) == IF text[i] = "d" THEN i - 2 ELSE i - 3

\* text with a line `next` put before that token
InsertNext(text, i) ==
    SubSeq(text, 1, EndStart(text, i) - 1) \o kw_next \o <<EOL>>
    \o SubSeq(text, EndStart(text, i), Len(text))

RECURSIVE WithNext(_, _)
\* text with a line `next` put before every `end` that push_token took
WithNext(text, pushes) ==
    IF pushes = << >> THEN text
    ELSE WithNext(InsertNext(text, pushes[Len(pushes)]), SubSeq(pushes, 1, Len(pushes) - 1))

\* parse ended for the text of r as it ended for the text of o, where no entry
\* is left without `next`: the same exception or the same Configuration, built
\* from the same assignments, the same number of characters read after the
\* lines put in
SameParse(r, o) ==
    /\ o.err = r.err
    /\ o.config = r.config
    /\ o.assigned = r.assigned
    /\ o.top = r.top
    /\ o.lex.pushes = << >>
    /\ o.lex.i = r.lex.i + Len(r.lex.pushes) * (Len(kw_next) + 1)

\* C5: in a `config vdom` table, an edit entry whose body is directly followed
\* by `end` (no `next`) is accepted, and parse returns the same Configuration
\* as for the same input with `next` inserted before that `end`; what follows
\* the `end` of the table is parsed identically in both cases.
C5_MissingNext ==
    result.lex.pushes # << >> =>
        SameParse(result, Parse(WithNext(input, result.lex.pushes)))

\* parse accepted a text where `end` closes an entry of `config vdom` that has
\* a body, and a `config global` block follows the table
C5_Witness ==
    /\ result.err = ""
    /\ result.lex.pushes # << >>
    /\ result.lex.pushes[1] < Len(input)
    /\ HasKey(result.top, GLOBAL)
    /\ \E n \in 1..Len(result.assigned) : result.assigned[n].v.items # << >>

(***************************************************************************)
(* `config vdom` declared twice                                            *)
(***************************************************************************)
\* the Object of the last assignment made for tenant key
LastAssigned(assigned, key) ==
    assigned[CHOOSE n \in 1..Len(assigned) :
                /\ assigned[n].k = key
                /\ \A m \in (n + 1)..Len(assigned) : assigned[m].k # key].v

\* C6: when the top-level `config vdom` table is declared twice, first with
\* tenant names only and later fully populated, then after parse the tenant
\* mapping has exactly one Root per tenant name, each holding the content of
\* the later declaration and nothing of the earlier one, and no `vdom` key is
\* stored in the dictionary of the top-level sections.
C6_VdomPrecedence ==
    result.err = "" =>
        /\ \A n, m \in 1..Len(result.config.vdoms) :
                result.config.vdoms[n].k = result.config.vdoms[m].k => n = m
        /\ {result.config.vdoms[n].k : n \in 1..Len(result.config.vdoms)}
                = {result.assigned[n].k : n \in 1..Len(result.assigned)}
        /\ \A n \in 1..Len(result.config.vdoms) :
                /\ result.config.vdoms[n].v.kind = "Root"
                /\ result.config.vdoms[n].v.items
                        = LastAssigned(result.assigned, result.config.vdoms[n].k).items
        /\ ~HasKey(result.top, VDOM)
        /\ (~HasVdom(result.config) => ~HasKey(result.config.root.items, VDOM))

\* parse accepted a text that declares tenant a with its name only, then with
\* a body: the mapping holds the body
C6_Witness ==
    /\ result.err = ""
    /\ \E n, m \in 1..Len(result.assigned) :
            /\ n < m
            /\ result.assigned[n].k = result.assigned[m].k
            /\ result.assigned[n].v.items = << >>
            /\ result.assigned[m].v.items # << >>
            /\ DictGet(result.config.vdoms, result.assigned[m].k).items
                    = result.assigned[m].v.items

(***************************************************************************)
(* The calls of a traversal                                                *)
(***************************************************************************)
RECURSIVE Walk(_, _, _, _)
RECURSIVE WalkItems(_, _, _)

\* the depth-first listing of the children of a composite, in insertion order
WalkItems(items, ancestors, bare) ==
    IF items = << >> THEN << >>
    ELSE Walk(items[1].k, items[1].v, ancestors, bare)
         \o WalkItems(Tail(items), ancestors, bare)

\* the depth-first listing of the tree of node, whose ancestors are given from
\* the outermost down to its parent: one enter call for a Set or an Unset; for
\* a composite its enter call, the listing of its children below it, its leave
\* call.  When bare, a Root is passed over: it has no call and is the ancestor
\* of no node.
Walk(key, node, ancestors, bare) ==
    IF node.kind \in {"Set", "Unset"}
    THEN <<Call(TRUE, key, node, ancestors, UserData)>>
    ELSE IF bare /\ node.kind = "Root"
    THEN WalkItems(node.items, ancestors, bare)
    ELSE <<Call(TRUE, key, node, ancestors, UserData)>>
         \o WalkItems(node.items, Append(ancestors, [k |-> key, v |-> node]), bare)
         \o <<Call(FALSE, key, node, ancestors, UserData)>>

\* of every call, its flag and its node
Events(calls) ==
    [n \in 1..Len(calls) |-> [enter |-> calls[n].enter, item |-> calls[n].item]]

\* of every call, the stack it was given
StacksOf(calls) == [n \in 1..Len(calls) |-> calls[n].parents]

\* C7, as first stated: traverse started on any Object or Table (a Root
\* included, and the start node included) calls the callback exactly once with
\* enter for every Set and Unset of the subtree and exactly once with enter
\* and once with leave for every Object and Table of the subtree, enter before
\* and leave after all calls for the descendants, children in insertion order.
C7_EveryComposite ==
    pc = "traversed" =>
        Events(visit.calls) = Events(Walk(visit.start.k, visit.start.v, << >>, FALSE))

\* C7: traverse started on any Object or Table calls the callback exactly once
\* with enter for every Set and Unset of the subtree and exactly once with
\* enter and once with leave for every Object and Table of the subtree, the
\* start node included unless it is a Root, for which no call is made; a
\* composite's enter call comes before, and its leave call after, all calls
\* for its descendants, and children are visited in insertion order.
C7_DepthFirst ==
    pc = "traversed" =>
        Events(visit.calls) = Events(Walk(visit.start.k, visit.start.v, << >>, TRUE))

\* a traversal started on a Root made calls for a composite that holds a
\* composite that holds a Set
C7_Witness ==
    /\ pc = "traversed"
    /\ visit.start.v.kind = "Root"
    /\ \E n \in 1..Len(visit.calls) :
            /\ visit.calls[n].item.v.kind = "Set"
            /\ Len(visit.calls[n].parents) >= 2
    /\ \E n \in 1..Len(visit.calls) : ~visit.calls[n].enter

\* C8, as first stated: at every call the stack holds exactly the (key, node)
\* pairs of the ancestors of the current node, from the tree root down to the
\* parent of the current node; the user data is the same at every call; when
\* traverse returns the stack holds what it held when traverse was called.
C8_AncestorsFromRoot ==
    pc = "traversed" =>
        /\ StacksOf(visit.calls)
                = StacksOf(Walk(visit.start.k, visit.start.v, visit.start.path, FALSE))
        /\ \A n \in 1..Len(visit.calls) : visit.calls[n].data = UserData
        /\ visit.after = visit.before

\* C8: at every call, on enter and on leave, the stack holds the pairs it held
\* when traverse was called, then the (key, node) pairs of the ancestors of
\* the current node within the traversed subtree, from the start node down to
\* the parent of the current node, a Root never being on the stack; the user
\* data is the same at every call; when traverse returns the stack holds what
\* it held when traverse was called.
C8_AncestorStack ==
    pc = "traversed" =>
        /\ StacksOf(visit.calls)
                = StacksOf(Walk(visit.start.k, visit.start.v, visit.before, TRUE))
        /\ \A n \in 1..Len(visit.calls) : visit.calls[n].data = UserData
        /\ visit.after = visit.before

\* a traversal started with a stack that is not empty made a call two levels
\* below the start node, and a leave call
C8_Witness ==
    /\ pc = "traversed"
    /\ visit.before # << >>
    /\ \E n \in 1..Len(visit.calls) :
            Len(visit.calls[n].parents) >= Len(visit.before) + 2
    /\ \E n \in 1..Len(visit.calls) : ~visit.calls[n].enter
    /\ visit.after = visit.before

(***************************************************************************)
(* The lines of make_config                                                *)
(***************************************************************************)
\* the statement of a call: set, unset, config or end, edit or next
Statement(c) ==
    CASE c.item.v.kind = "Set" ->
            kw_set \o <<SP>> \o c.item.k \o <<SP>> \o JoinWith(c.item.v.params, <<SP>>)
      [] c.item.v.kind = "Unset" -> kw_unset \o <<SP>> \o c.item.k
      [] /\ c.item.v.kind \in {"Object", "Table"}
         /\ (c.parents = << >> \/ c.parents[Len(c.parents)].v.kind = "Object") ->
            IF c.enter THEN kw_config \o <<SP>> \o c.item.k ELSE kw_end
      [] /\ c.item.v.kind \in {"Object", "Table"}
         /\ c.parents # << >>
         /\ c.parents[Len(c.parents)].v.kind = "Table" ->
            IF c.enter THEN kw_edit \o <<SP>> \o c.item.k ELSE kw_next

\* the line of a call: its statement after 4 spaces per pair of the stack
ExpectedLine(c) == [n \in 1..(4 * Len(c.parents)) |-> SP] \o Statement(c)

ExpectedLines(calls) == [n \in 1..Len(calls) |-> ExpectedLine(calls[n])]

\* what write puts before the lines of make_config
CommentsText(config, include_comments) ==
    IF include_comments /\ config.comments # << >>
    THEN JoinWith(config.comments, <<EOL>>) \o <<EOL>>
    ELSE << >>

\* C9: make_config without a filter emits, for every node of a parsed tree,
\* `set <key> <params joined by single spaces>` for a Set, `unset <key>` for
\* an Unset, `config <key>` on enter and `end` on leave for an Object or Table
\* at the top level or whose parent is an Object, `edit <key>` on enter and
\* `next` on leave for an Object or Table whose parent is a Table, every line
\* prefixed with 4 spaces times the depth of the stack at that node.
C9_Lines ==
    (pc = "written" /\ opts.f = "none") =>
        /\ \A root \in Roots(result.config) :
                Emit("none", 0, root, << >>)
                    = ExpectedLines(Traverse(<< >>, root, << >>, UserData).calls)
        /\ ~HasVdom(result.config) =>
                file = CommentsText(result.config, opts.include_comments)
                       \o JoinWith(ExpectedLines(Traverse(<< >>, result.config.root,
                                                          << >>, UserData).calls),
                                   <<EOL>>)
                       \o <<EOL>>

\* write without filter wrote a set line two levels down and an edit line
C9_Witness ==
    /\ pc = "written"
    /\ opts.f = "none"
    /\ ~HasVdom(result.config)
    /\ \E n \in 1..Len(SplitLines(file)) :
            StartsWith(SplitLines(file)[n], Spaces(8) \o kw_set \o <<SP>>)
    /\ \E n \in 1..Len(SplitLines(file)) :
            StartsWith(SplitLines(file)[n], Spaces(4) \o kw_edit \o <<SP>>)

(***************************************************************************)
(* The layout of make_config with tenants                                  *)
(***************************************************************************)
\* the block that declares the tenants, between `config vdom` and `end`
Declarations(vdoms) ==
    [n \in 1..(2 * Len(vdoms)) |->
        IF n % 2 = 1 THEN kw_edit \o <<SP>> \o vdoms[(n + 1) \div 2].k ELSE kw_next]

RECURSIVE Definitions(_, _)
\* one block per tenant, in the order of the mapping
Definitions(f, vdoms) ==
    IF vdoms = << >> THEN << >>
    ELSE <<kw_config \o <<SP>> \o VDOM, kw_edit \o <<SP>> \o vdoms[1].k>>
         \o Emit(f, 0, vdoms[1].v, << >>)
         \o <<kw_end, << >> >>
         \o Definitions(f, Tail(vdoms))

\* the lines of a Configuration, with the wrapper lines when it has tenants
Layout(config, f) ==
    IF config.vdoms = << >> THEN Emit(f, 0, config.root, << >>)
    ELSE << << >>, kw_config \o <<SP>> \o VDOM>>
         \o Declarations(config.vdoms)
         \o <<kw_end, << >>, kw_config \o <<SP>> \o GLOBAL>>
         \o Emit(f, 0, config.root, << >>)
         \o <<kw_end, << >> >>
         \o Definitions(f, config.vdoms)

\* C10: when the Configuration has tenants, make_config emits in this order
\* one `config vdom` block that declares every tenant as `edit <tenant>` /
\* `next` and is closed by `end`, one `config global` ... `end` block that
\* contains the serialized default tree, then for every tenant, in the
\* insertion order of the mapping, one block `config vdom` / `edit <tenant>`
\* / the serialized tree of the tenant / `end`; every tenant appears exactly
\* once in the declaration block and exactly once as a definition block; with
\* no tenants none of these wrapper lines is emitted.
C10_TenantLayout ==
    pc = "written" =>
        /\ file = CommentsText(result.config, opts.include_comments)
                  \o JoinWith(Layout(result.config, opts.f), <<EOL>>) \o <<EOL>>
        /\ \A n \in 1..Len(result.config.vdoms) :
                Cardinality({m \in 1..Len(Declarations(result.config.vdoms)) :
                                Declarations(result.config.vdoms)[m]
                                    = kw_edit \o <<SP>> \o result.config.vdoms[n].k}) = 1

\* write wrote a Configuration with two tenants, one with a tree that is not
\* empty, and a default tree that is not empty
C10_Witness ==
    /\ pc = "written"
    /\ Len(result.config.vdoms) = 2
    /\ \E n \in 1..2 : result.config.vdoms[n].v.items # << >>
    /\ opts.f = "none"

(***************************************************************************)
(* qus and uqs on the strings of backslashes, double quotes and letters    *)
(***************************************************************************)
QuoteChars == {BSL, QUOTE, "a"}

InitQuote ==
    /\ input = << >>
    /\ typed = 0
    /\ result = Parse(<< >>)
    /\ pc = "arg"
    /\ file = << >>
    /\ opts = NoOpts
    /\ rewritten = FALSE
    /\ visit = NoVisit
    /\ arg = << >>
    /\ quoted = << >>
    /\ unquoted = << >>
    /\ entry = NoEntry
    /\ lexed = NoLexed
    /\ run = NoRun
    /\ steps = 0

\* one more character of the argument
ArgChar(c) ==
    /\ pc = "arg"
    /\ Len(arg) < MaxStrLen
    /\ arg' = Append(arg, c)
    /\ UNCHANGED <<input, typed, result, pc, file, opts, rewritten, visit, quoted, unquoted, entry, lexed, run, steps>>

\* quoted = qus(arg)
CallQus ==
    /\ pc = "arg"
    /\ quoted' = qus(arg)
    /\ pc' = "qus"
    /\ UNCHANGED <<input, typed, result, file, opts, rewritten, visit, arg, unquoted, entry, lexed, run, steps>>

\* unquoted = uqs(quoted)
CallUqs ==
    /\ pc = "qus"
    /\ unquoted' = uqs(quoted)
    /\ pc' = "uqs"
    /\ UNCHANGED <<input, typed, result, file, opts, rewritten, visit, arg, quoted, entry, lexed, run, steps>>

NextQuote ==
    \/ \E c \in QuoteChars : ArgChar(c)
    \/ CallQus
    \/ CallUqs

SpecQuote == InitQuote /\ [][NextQuote]_vars

\* C4: for every string s, including strings made of backslashes and double
\* quotes in any order and strings ending in a backslash, uqs(qus(s)) = s.
C4_QuotingInverse == pc = "uqs" => unquoted = arg

\* uqs(qus(s)) has been computed for a string s of backslashes and double
\* quotes that ends in a backslash
C4_Witness ==
    /\ pc = "uqs"
    /\ Len(arg) >= 3
    /\ arg[Len(arg)] = BSL
    /\ \E n \in 1..Len(arg) : arg[n] = QUOTE
    /\ quoted = qus(arg)

(***************************************************************************)
(* FgtConfigTable.c_entry                                                  *)
(***************************************************************************)
Digits == <<"0", "1", "2", "3", "4", "5", "6", "7", "8", "9">>

RECURSIVE str(_)
\* str(n) of a non-negative integer n: its decimal digits
str(n) == IF n < 10 THEN <<Digits[n + 1]>> ELSE str(n \div 10) \o <<Digits[(n % 10) + 1]>>

\* c_entry looking up the key as it is given
EntryNameAsGiven(key) == IF key.type = "int" THEN str(key.n) ELSE key.s

\* the key that c_entry looks up in the Table
EntryName(key) == IF key.type = "int" THEN str(key.n) ELSE qus(key.s)

\* the outcome of self[name] in c_entry
EntryValue(table, name) ==
    IF ~HasKey(table.items, name) THEN [err |-> "KeyError", value |-> FgtConfigUnset]
    ELSE IF IsObject(DictGet(table.items, name))
         THEN [err |-> "", value |-> DictGet(table.items, name)]
         ELSE [err |-> "TypeError", value |-> FgtConfigUnset]

c_entry(table, key) ==
    IF key.type \in {"int", "str"} THEN EntryValue(table, EntryName(key))
    ELSE [err |-> "TypeError", value |-> FgtConfigUnset]

(***************************************************************************)
(* The grammar, line by line: texts of at most MaxLines lines, those that  *)
(* the parser refuses included                                             *)
(***************************************************************************)
MaxLines == 5

ConfigVdomX == Line(<<kw_config, VDOM, Word("x")>>)
Edit1 == Line(<<kw_edit, Word("1")>>)
Edit2 == Line(<<kw_edit, Word("2")>>)
EditQB == Line(<<kw_edit, <<QUOTE, "b", QUOTE>> >>)
SetX2 == Line(<<kw_set, Word("x"), Word("2")>>)
SetXOnly == Line(<<kw_set, Word("x")>>)
SetOnly == Line(<<kw_set>>)
UnsetOnly == Line(<<kw_unset>>)
UnsetYZ == Line(<<kw_unset, Word("y"), Word("z")>>)
FooLine == Line(<<Word("f"), Word("2")>>)
Blank == <<EOL>>
TableA == ConfigA \o Edit1
SetOpenQuote == Line(<<kw_set, Word("x"), <<QUOTE, "q">> >>)
SetEscape == JoinWith(<<kw_set, Word("x"), <<QUOTE, "q", BSL>> >>, <<SP>>)

Lines ==
    {ConfigA, ConfigVdom, ConfigVdomX, Edit1, Edit2, EditQB, SetX, SetX2, SetXOnly, SetOnly,
     UnsetY, UnsetOnly, UnsetYZ, NextLine, EndLine, FooLine, Blank, TableA, SetOpenQuote, SetEscape}

\* the outcomes that one more line can still change: the text is accepted, or
\* it ends inside a block
Open == {"", "eos"}

\* the lines that can follow text, the n-th line typed: those that leave no
\* more blocks open than the lines left can close
FitLines(text, n) ==
    LET open == Nesting(text)
    IN  {line \in Lines : open + Nesting(line) + n + 1 <= MaxLines}

\* the Tables of a Configuration
Tables(config) == {b.v : b \in {s \in StartNodes(config) : s.v.kind = "Table"}}

\* the keys that c_entry is called with
EntryKeys ==
    {IntKey(1), IntKey(3), StrKey(Word("1")), StrKey(Word("b")), OtherKey}

InitGrammar ==
    /\ input = << >>
    /\ typed = 0
    /\ result = Parse(<< >>)
    /\ pc = "parsed"
    /\ file = << >>
    /\ opts = NoOpts
    /\ rewritten = FALSE
    /\ visit = NoVisit
    /\ arg = << >>
    /\ quoted = << >>
    /\ unquoted = << >>
    /\ entry = NoEntry
    /\ lexed = NoLexed
    /\ run = NoRun
    /\ steps = 0

\* parse_config(input \o line): the text so far and one more line
TypeLine(line) ==
    /\ pc = "parsed"
    /\ typed < MaxLines
    /\ result.err \in Open
    /\ input' = input \o line
    /\ typed' = typed + 1
    /\ result' = Parse(input')
    /\ UNCHANGED <<pc, file, opts, rewritten, visit, arg, quoted, unquoted, entry, lexed, run, steps>>

\* table.c_entry(key) on a Table of the parsed Configuration
CallEntry(table, key) ==
    /\ pc = "parsed"
    /\ result.err = ""
    /\ entry' = [table |-> table, key |-> key] @@ c_entry(table, key)
    /\ pc' = "entry"
    /\ UNCHANGED <<input, typed, result, file, opts, rewritten, visit, arg, quoted, unquoted, lexed, run, steps>>

NextGrammar ==
    \/ \E line \in FitLines(input, typed) : TypeLine(line)
    \/ \E table \in Tables(result.config), key \in EntryKeys : CallEntry(table, key)

SpecGrammar == InitGrammar /\ [][NextGrammar]_vars

\* C11: c_entry(n) with an integer n returns the Object that t[str(n)] is,
\* c_entry(s) with a string s returns the Object that t[qus(s)] is, and a key
\* that the Table does not hold raises KeyError.
C11_KeyResolution ==
    pc = "entry" /\ entry.key.type \in {"int", "str"} =>
        /\ entry.key.type = "int" /\ HasKey(entry.table.items, str(entry.key.n)) =>
               entry.err = "" /\ entry.value = DictGet(entry.table.items, str(entry.key.n))
        /\ entry.key.type = "str" /\ HasKey(entry.table.items, qus(entry.key.s)) =>
               entry.err = "" /\ entry.value = DictGet(entry.table.items, qus(entry.key.s))
        /\ entry.key.type = "int" /\ ~HasKey(entry.table.items, str(entry.key.n)) =>
               entry.err = "KeyError"
        /\ entry.key.type = "str" /\ ~HasKey(entry.table.items, qus(entry.key.s)) =>
               entry.err = "KeyError"

\* c_entry has returned the entry `edit "b"` for the string b, in a Table
\* that also holds the entry `edit 1`
C11_Witness ==
    /\ pc = "entry"
    /\ entry.key = StrKey(Word("b"))
    /\ entry.err = ""
    /\ IsObject(entry.value)
    /\ HasKey(entry.table.items, Word("1"))
    /\ Len(entry.table.items) = 2

\* C12: on a Table parsed from `edit 1`, `next`, `edit 2`, `next`, c_entry('1')
\* with the string '1' returns the first entry, the value of table['1'].
C12_StringOne ==
    /\ pc = "entry"
    /\ entry.key = StrKey(Word("1"))
    /\ Keys(entry.table.items) = <<Word("1"), Word("2")>>
    => /\ entry.err = ""
       /\ entry.value = DictGet(entry.table.items, Word("1"))

RECURSIVE InString(_, _, _)
\* TRUE when the characters of text from the n-th on end inside a quoted
\* string, a backslash in a string taking the character after it; inside
\* tells whether the n-th character is in a string
InString(text, n, inside) ==
    IF n > Len(text) THEN inside
    ELSE IF inside /\ text[n] = BSL THEN n + 1 > Len(text) \/ InString(text, n + 2, TRUE)
    ELSE IF text[n] = QUOTE THEN InString(text, n + 1, ~inside)
    ELSE InString(text, n + 1, inside)

\* the exception of a parse that read the end of a text made of whole lines,
\* or of a text that ends in a quoted string, is a syntax error of some class
EndedEarly ==
    /\ pc = "parsed"
    /\ result.lex.eos
    /\ ExceptionClass(result.err) \in {"FgtConfigSyntaxError", "FgtConfigEosError"}
    /\ InString(input, 1, FALSE) \/ input[Len(input)] = EOL

\* C13 as stated: when the input ends where a token is expected, inside an
\* open block or entry or inside a quoted string, the error raised is
\* FgtConfigEosError.
C13_AlwaysEos == EndedEarly => ExceptionClass(result.err) = "FgtConfigEosError"

\* C13 as the code has it: when the input ends after a whole line inside an
\* open block or entry, the error raised is FgtConfigEosError; when it ends
\* inside a quoted string, the error is the generic FgtConfigSyntaxError, with
\* the message "unbalanced quote", or "escape error" directly after a backslash.
C13_EndOfStream ==
    EndedEarly =>
        IF InString(input, 1, FALSE)
        THEN /\ ExceptionClass(result.err) = "FgtConfigSyntaxError"
             /\ result.err = IF input[Len(input)] = BSL THEN "escape error"
                             ELSE "unbalanced quote"
        ELSE ExceptionClass(result.err) = "FgtConfigEosError"

\* a text has ended inside an edit entry of a Table, after a whole line
C13_Witness ==
    /\ EndedEarly
    /\ ~InString(input, 1, FALSE)
    /\ typed >= 3
    /\ Nesting(input) >= 2
    /\ result.err = "eos"

\* s ends with p
EndsWith(s, p) == Len(s) >= Len(p) /\ SubSeq(s, Len(s) - Len(p) + 1, Len(s)) = p

\* the text ends inside an Object body or an edit entry, where the parser
\* reads a well-formed set as a command
InBody == pc = "parsed" /\ result.err = "eos" /\ Parse(input \o SetX2).err = "eos"

\* every Set of the parsed trees has at least one parameter
SetsHaveValues ==
    \A b \in StartNodes(result.config) : \A n \in 1..Len(b.v.items) :
        b.v.items[n].v.kind = "Set" => Len(b.v.items[n].v.params) >= 1

\* parse_config of a text that ends inside an Object body or an edit entry,
\* followed by a set with less than two tokens or an unset with a number of
\* tokens other than one, raises a syntax error and returns no Configuration
ArityStep ==
    InBody /\ input' \in {input \o line : line \in {SetXOnly, SetOnly, UnsetOnly, UnsetYZ}}
    => /\ ExceptionClass(result'.err) = "FgtConfigSyntaxError"
       /\ result'.err = IF input' \in {input \o SetXOnly, input \o SetOnly}
                        THEN "invalid set command" ELSE "invalid unset command"
       /\ result'.config = NoConfig

\* C14: in an Object body, a set with fewer than 2 tokens after `set` and an
\* unset with a number of tokens after `unset` other than 1 raise a syntax
\* error and parse returns no tree; every Set of a parsed tree has at least
\* one parameter.
C14_Arity == []SetsHaveValues /\ [][ArityStep]_vars

\* an unset with two tokens has been refused inside an edit entry
C14_Witness ==
    /\ pc = "parsed"
    /\ EndsWith(input, Edit1 \o SetX \o UnsetYZ)
    /\ result.err = "invalid unset command"
    /\ result.config = NoConfig

(***************************************************************************)
(* Lexer.next_token on the streams of at most MaxStrLen characters made of *)
(* double quotes, backslashes, newlines and letters                        *)
(***************************************************************************)
StreamChars == {QUOTE, BSL, EOL, "a"}

InitLex ==
    /\ input = << >>
    /\ typed = 0
    /\ result = Parse(<< >>)
    /\ pc = "stream"
    /\ file = << >>
    /\ opts = NoOpts
    /\ rewritten = FALSE
    /\ visit = NoVisit
    /\ arg = << >>
    /\ quoted = << >>
    /\ unquoted = << >>
    /\ entry = NoEntry
    /\ lexed = NoLexed
    /\ run = NoRun
    /\ steps = 0

\* one more character of the stream
StreamChar(c) ==
    /\ pc = "stream"
    /\ Len(lexed.stream) < MaxStrLen
    /\ lexed' = [lexed EXCEPT !.stream = Append(lexed.stream, c)]
    /\ UNCHANGED <<input, typed, result, pc, file, opts, rewritten, visit, arg, quoted, unquoted,
                   entry, run, steps>>

\* what the first next_token of a Lexer returned or raised, and the number of
\* characters it read
Lexed(stream, r) == [stream |-> stream, err |-> r.err, token |-> r.token, i |-> r.lex.i]

\* Lexer(stream).next_token()
CallNextToken ==
    /\ pc = "stream"
    /\ lexed' = Lexed(lexed.stream, NextToken(LexerInit(lexed.stream)))
    /\ pc' = "token"
    /\ UNCHANGED <<input, typed, result, file, opts, rewritten, visit, arg, quoted, unquoted,
                   entry, run, steps>>

NextLex ==
    \/ \E c \in StreamChars : StreamChar(c)
    \/ CallNextToken

SpecLex == InitLex /\ [][NextLex]_vars

RECURSIVE ClosingQuote(_, _)
\* the place in s, from the n-th character on, of the first double quote that
\* no backslash takes, every backslash taking the one character after it;
\* 0 when s ends before such a quote, -1 when s ends directly after a backslash
ClosingQuote(s, n) ==
    IF n > Len(s) THEN 0
    ELSE IF s[n] = BSL THEN (IF n = Len(s) THEN -1 ELSE ClosingQuote(s, n + 2))
    ELSE IF s[n] = QUOTE THEN n
    ELSE ClosingQuote(s, n + 1)

\* C15: when next_token meets a double quote, the token is the raw characters
\* from that quote through the first later double quote that no escape takes,
\* every backslash taking exactly the one character after it; the token keeps
\* its quotes, its backslashes and its newlines.  The end of the stream before
\* the closing quote raises "unbalanced quote", and directly after a backslash
\* "escape error".
C15_QuotedString ==
    pc = "token" /\ lexed.stream # << >> /\ lexed.stream[1] = QUOTE =>
        IF ClosingQuote(lexed.stream, 2) > 0
        THEN /\ lexed.err = ""
             /\ lexed.token = SubSeq(lexed.stream, 1, ClosingQuote(lexed.stream, 2))
             /\ lexed.i = ClosingQuote(lexed.stream, 2)
        ELSE IF ClosingQuote(lexed.stream, 2) = 0
        THEN lexed.err = "unbalanced quote"
        ELSE lexed.err = "escape error"

\* next_token has returned a quoted string that holds an escaped double quote,
\* from a stream that goes on after it
C15_Witness ==
    /\ pc = "token"
    /\ lexed.stream = <<QUOTE, BSL, QUOTE, QUOTE>> \/ lexed.stream = <<QUOTE, EOL, QUOTE, "a">>
    /\ lexed.err = ""
    /\ lexed.token \in {<<QUOTE, BSL, QUOTE, QUOTE>>, <<QUOTE, EOL, QUOTE>>}

\* the first word of a stripped line is the word w
FirstWordIs(line, w) == StartsWith(Append(line, SP), Append(w, SP))

\* the places of the `config` lines among the stripped lines
Headers(lines) == {n \in 1..Len(lines) : FirstWordIs(lines[n], kw_config)}

RECURSIVE FirstLineFrom(_, _)
\* the first line that is not blank among the stripped lines, from the n-th on
FirstLineFrom(lines, n) ==
    IF n > Len(lines) THEN << >>
    ELSE IF lines[n] = << >> THEN FirstLineFrom(lines, n + 1)
    ELSE lines[n]

\* the first line that is not blank after the one `config` line of lines
AfterHeader(lines) == FirstLineFrom(lines, (CHOOSE n \in Headers(lines) : TRUE) + 1)

\* lines holds one `config` line, and it does not declare the tenants
OneBlock(lines) ==
    /\ Cardinality(Headers(lines)) = 1
    /\ lines[CHOOSE n \in Headers(lines) : TRUE] # Strip(ConfigVdom)

\* every Table of the parsed trees has an entry, and all its values are Objects
TablesOfObjects ==
    \A b \in StartNodes(result.config) :
        b.v.kind = "Table" =>
            /\ Len(b.v.items) >= 1
            /\ \A n \in 1..Len(b.v.items) : IsObject(b.v.items[n].v)

\* C16: a config block is a Table exactly when the first token after its
\* header line, blank lines skipped, is `edit`, and an Object otherwise:
\* `config a` followed by `end` is an empty Object.  Every Table has at least
\* one entry and every value of a Table is an Object.  (The block is the one
\* block of a text; `config vdom` at the top level is kept in no tree.)
C16_TableOrObject ==
    pc = "parsed" /\ result.err = "" =>
        /\ TablesOfObjects
        /\ OneBlock(StripAll(SplitLines(input))) =>
               /\ Len(result.config.root.items) = 1
               /\ IF FirstWordIs(AfterHeader(StripAll(SplitLines(input))), kw_edit)
                  THEN result.config.root.items[1].v.kind = "Table"
                  ELSE result.config.root.items[1].v.kind = "Object"
        /\ input = ConfigA \o EndLine =>
               result.config.root.items = <<[k |-> Word("a"), v |-> FgtConfigObject(<< >>)]>>

\* a Table has been parsed from a header, a blank line and an entry
C16_Witness ==
    /\ pc = "parsed"
    /\ result.err = ""
    /\ input = ConfigA \o Blank \o Edit1 \o NextLine \o EndLine
    /\ result.config.root.items[1].v = FgtConfigTable(<<[k |-> Word("1"), v |-> FgtConfigObject(<< >>)]>>)

\* s holds p: the characters of p in a row
Contains(s, p) == \E n \in 0..(Len(s) - Len(p)) : SubSeq(s, n + 1, n + Len(p)) = p

\* C17: in a Table every entry starts with `edit`: a text in which the line
\* after a `next` starts with a word that is neither `edit` nor `end` is not
\* accepted, parse raises a syntax error, and no entry gets the rest of that
\* line as its key.
C17_EntryStartsWithEdit ==
    pc = "parsed" /\ Contains(input, NextLine \o FooLine) =>
        /\ result.err # ""
        /\ \A b \in StartNodes(result.config) :
               b.v.kind = "Table" => ~HasKey(b.v.items, Word("2"))

\* C18: `end` closes an edit entry only in a Table declared as `config vdom`:
\* in a Table of another name, `config vdom x` included, at any depth, an
\* entry whose body reaches `end` before a `next` raises "invalid entry".
C18_EndOnlyInVdom ==
    /\ pc = "parsed"
    /\ \/ EndsWith(input, ConfigA \o Edit1 \o EndLine)
       \/ EndsWith(input, ConfigVdomX \o Edit1 \o EndLine)
    => result.err = "invalid entry"

\* the n-th call of the history log is a push_token made when the slot was
\* empty, of the token `end` that next_token had just returned
PushOfEnd(log, n) ==
    /\ log[n].op = "push"
    /\ ~log[n].full
    /\ log[n].token = kw_end
    /\ log[n].returned = <<[token |-> kw_end, i |-> log[n].i]>>

\* the n-th call of the history log is a next_token that returned the token
\* of the push_token before it, no character read in between
PopOfPush(log, n) ==
    /\ log[n].op = "pop"
    /\ log[n].full
    /\ log[n].token = log[n - 1].token
    /\ log[n].i = log[n - 1].i

\* C19: the lexer holds at most one pushed-back token; push_token is only
\* called when the slot is empty, with the `end` that next_token just
\* returned, and the very next next_token returns that token, once, before
\* any further character is read from the stream.
C19_OneSlot ==
    pc = "parsed" =>
        /\ result.lex.token = << >>
        /\ Len(result.lex.log) % 2 = 0
        /\ \A n \in 1..Len(result.lex.log) :
               IF n % 2 = 1 THEN PushOfEnd(result.lex.log, n) ELSE PopOfPush(result.lex.log, n)

\* parse accepted a text in which `end` closed an entry, was pushed back and
\* was returned again, and read more of the text after it
C19_Witness ==
    /\ pc = "parsed"
    /\ result.err = ""
    /\ Len(result.lex.log) = 2
    /\ result.lex.log[2].op = "pop"
    /\ result.lex.log[2].i < result.lex.i

(***************************************************************************)
(* Keys declared more than once                                            *)
(***************************************************************************)
\* the mapping of the declarations of first followed by those of second: the
\* keys of first in their order, then the keys that only second has, each
\* with its node in second when second has it, nothing kept from first then
Merge(first, second) ==
    [n \in 1..Len(first) |->
        IF HasKey(second, first[n].k)
        THEN [k |-> first[n].k, v |-> DictGet(second, first[n].k)]
        ELSE first[n]]
    \o SelectSeq(second, LAMBDA e : ~HasKey(first, e.k))

\* the places where a line of text ends, the last line aside
LineEnds(text) == {n \in 1..(Len(text) - 1) : text[n] = EOL}

Accepted(text) == Parse(text).err = ""
RootItems(text) == Parse(text).config.root.items

\* text is one block `config a`: it is accepted, and only as a whole
OneBlockA(text) ==
    /\ StartsWith(text, ConfigA)
    /\ EndsWith(text, EndLine)
    /\ Accepted(text)
    /\ \A n \in LineEnds(text) : ~Accepted(SubSeq(text, 1, n))

\* the items of the block `a` of a text that is one block `config a`
BlockItems(text) == RootItems(text)[1].v.items

\* the text is two texts in a row, cut after its n-th character: its tree
\* holds the declarations of the first and then those of the second
TopSplit(n) ==
    Accepted(SubSeq(input, 1, n)) /\ Accepted(SubSeq(input, n + 1, Len(input))) =>
        result.config.root.items =
            Merge(RootItems(SubSeq(input, 1, n)), RootItems(SubSeq(input, n + 1, Len(input))))

\* the text is one block `config a` whose body is two bodies in a row, cut
\* after the n-th character of the text: the block holds the declarations of
\* the first body and then those of the second
BodySplit(n) ==
    /\ n >= Len(ConfigA)
    /\ OneBlockA(SubSeq(input, 1, n) \o EndLine)
    /\ OneBlockA(ConfigA \o SubSeq(input, n + 1, Len(input)))
    => BlockItems(input) =
           Merge(BlockItems(SubSeq(input, 1, n) \o EndLine),
                 BlockItems(ConfigA \o SubSeq(input, n + 1, Len(input))))

\* no key stands twice in an Object or a Table of the parsed trees
UniqueKeys ==
    \A b \in StartNodes(result.config) :
        \A n, m \in 1..Len(b.v.items) : b.v.items[n].k = b.v.items[m].k => n = m

\* C20: when a key is declared more than once in a block (the same set or
\* unset name, the same config name, the same edit key), the mapping holds
\* one entry for it, with the node of the last declaration and nothing of
\* the earlier ones, at the place of the first declaration.
C20_DuplicateKeys ==
    pc = "parsed" /\ result.err = "" =>
        /\ UniqueKeys
        /\ \A n \in LineEnds(input) : TopSplit(n)
        /\ OneBlockA(input) => \A n \in LineEnds(input) : BodySplit(n)

\* x is set, y is unset and x is set again in one Object: x comes first, with
\* the value set last
C20_Witness ==
    /\ pc = "parsed"
    /\ input = ConfigA \o SetX \o UnsetY \o SetX2 \o EndLine
    /\ result.err = ""
    /\ BlockItems(input) = <<[k |-> Word("x"), v |-> FgtConfigSet(<<Word("2")>>)],
                             [k |-> Word("y"), v |-> FgtConfigUnset]>>

(***************************************************************************)
(* parse, one loop iteration at a time.  run holds the local variables of  *)
(* parse and, in stack, one frame for every call of _parse_config and of   *)
(* _parse_table_entry that has not returned: its loop, config_keys or      *)
(* edit_key, the vdom flag and the dictionary filled so far.  A step is    *)
(* one execution of the body of the innermost loop; the body that calls    *)
(* _parse_config or _parse_table_entry is split where the call enters its  *)
(* own loop and where it returns.  The lexer's loops run inside the step.  *)
(***************************************************************************)
MaxRunLines == 4
MaxIterations == 16

CommentLine == <<"#", "c", EOL>>
TableV == ConfigVdom \o Edit1

RunLines ==
    {CommentLine, ConfigA, ConfigGlobal, TableV, TableA, Edit1, SetX, UnsetY, NextLine,
     EndLine, FooLine, SetOpenQuote}

Frame(loop, keys, vdom) == [loop |-> loop, keys |-> keys, vdom |-> vdom, config |-> << >>]
Top(stack) == stack[Len(stack)]
Rest(stack) == SubSeq(stack, 1, Len(stack) - 1)

\* parse returns or raises: out is what Parse gives for the same outcome
Stop(r, out) == [r EXCEPT !.pc = "done", !.lex = out.lex, !.out = out]

\* token = lexer.next_snl_token(...) at the end of a loop body, t being what
\* the call returned or raised, and the loop that tests the token next
Go(r, t, loop) ==
    IF t.err # "" THEN Stop(r, ParseFail(t.err, t.lex))
    ELSE [r EXCEPT !.pc = loop, !.lex = t.lex, !.token = t.token]

\* parse, the test of its first loop
CommentsOrStatements(token) ==
    IF StartsWith(token, <<"#">>) THEN "comments" ELSE "statements"

\* config[key] = value in the innermost frame
Filled(r, key, value) ==
    [r EXCEPT !.stack[Len(r.stack)].config = DictSet(@, key, value)]

\* _parse_config, from its first token t to the test of its loop
ConfigFrame(r, config_keys, t) ==
    IF t.err # "" THEN Stop(r, ParseFail(t.err, t.lex))
    ELSE [r EXCEPT !.pc = "body", !.lex = t.lex, !.token = t.token,
                   !.stack = Append(@, Frame(IF t.token = kw_edit THEN "table" ELSE "object",
                                             config_keys, FALSE))]

\* _parse_config, given the tokens config_keys of the line
ConfigEntered(r, config_keys) ==
    IF config_keys.err # "" THEN Stop(r, ParseFail(config_keys.err, config_keys.lex))
    ELSE IF Len(config_keys.tokens) = 0
    THEN Stop(r, ParseFail("invalid config", config_keys.lex))
    ELSE ConfigFrame(r, config_keys.tokens, NextSnlToken(config_keys.lex, TRUE))

\* the call of _parse_config, up to the test of its loop
EnterConfig(r) == ConfigEntered(r, NextParameters(r.lex))

\* _parse_table_entry, from its first token t to the test of its loop
EntryFrame(r, edit_key, vdom, t) ==
    IF t.err # "" THEN Stop(r, ParseFail(t.err, t.lex))
    ELSE [r EXCEPT !.pc = "body", !.lex = t.lex, !.token = t.token,
                   !.stack = Append(@, Frame("entry", edit_key, vdom))]

\* _parse_table_entry, given the tokens edit_key of the line
EntryEntered(r, edit_key, vdom) ==
    IF edit_key.err # "" THEN Stop(r, ParseFail(edit_key.err, edit_key.lex))
    ELSE IF Len(edit_key.tokens) # 1
    THEN Stop(r, ParseFail("invalid table configuration", edit_key.lex))
    ELSE EntryFrame(r, edit_key.tokens[1], vdom, NextSnlToken(edit_key.lex, TRUE))

\* the call of _parse_table_entry by the loop of a table, up to the test of
\* its loop
EnterEntry(r) == EntryEntered(r, NextParameters(r.lex), Top(r.stack).keys[1] = VDOM)

\* the body of the loop of an object or of an entry when the command is set
\* or unset: c is what _parse_set_command or _parse_unset_command returned
Stored(r, c) ==
    IF c.err # "" THEN Stop(r, ParseFail(c.err, c.lex))
    ELSE Go(Filled(r, c.key, c.node), NextSnlToken(c.lex, TRUE), "body")

\* the body of the loop of an object or of an entry: _parse_config_command
Command(r) ==
    IF r.token = kw_set THEN Stored(r, ParseSetCommand(r.lex))
    ELSE IF r.token = kw_unset THEN Stored(r, ParseUnsetCommand(r.lex))
    ELSE IF r.token = kw_config THEN EnterConfig(r)
    ELSE Stop(r, ParseFail("invalid entry", r.lex))

\* parse, the end of the body of its second loop when a vdom is detected: v
\* is what the loop over the entries gave
VdomsKept(r, L, v) ==
    IF v.err # "" THEN Stop(r, ParseFail(v.err, L))
    ELSE Go([r EXCEPT !.vdoms_config = v.vdoms, !.assigned = v.assigned],
            NextSnlToken(L, FALSE), "statements")

\* parse, the end of the body of its second loop: _parse_config returned
\* key and node
Kept(r, L, key, node) ==
    IF key = VDOM
    THEN VdomsKept(r, L, VdomItems(node.items, Version(r.comments), r.vdoms_config, r.assigned))
    ELSE Go([r EXCEPT !.global_config = DictSet(@, key, node)],
            NextSnlToken(L, FALSE), "statements")

\* a faulty return: the caller stores the value and reads no token
ReturnedIdle(r, L, key, node) ==
    IF r.stack = << >> THEN Kept(r, L, key, node)
    ELSE [Filled(r, key, node) EXCEPT !.lex = L]

\* _parse_config or _parse_table_entry returns key and node to the loop that
\* called it, r.stack being the frames of the callers: the end of the body of
\* that loop
ReturnedTo(r, L, key, node) ==
    IF r.stack = << >> THEN Kept(r, L, key, node)
    ELSE Go(Filled(r, key, node), NextSnlToken(L, TRUE), "body")

\* the frames without the innermost
Unwound(r) == [r EXCEPT !.stack = Rest(@)]

\* _parse_config, what follows its loop
ExitConfig(r) ==
    ReturnedTo(Unwound(r), r.lex, JoinWith(Top(r.stack).keys, <<SP>>),
               IF Top(r.stack).loop = "table" THEN FgtConfigTable(Top(r.stack).config)
               ELSE FgtConfigObject(Top(r.stack).config))

\* _parse_table_entry, what follows its loop: the end keyword of a vdom
\* entry is pushed back
ExitEntry(r) ==
    ReturnedTo(Unwound(r),
               IF Top(r.stack).vdom /\ r.token = kw_end THEN PushToken(r.lex, r.token)
               ELSE r.lex,
               Top(r.stack).keys, FgtConfigObject(Top(r.stack).config))

\* parse, the body of its first loop, t being what next_snl_token returned
BeginComment(r, t) ==
    Go([r EXCEPT !.comments = Append(@, r.token)], t, CommentsOrStatements(t.token))

\* parse_config(input) is called: parse, up to the test of its first loop
BeginParse(t) == Go([NoRun EXCEPT !.lex = t.lex], t, CommentsOrStatements(t.token))

InitRun ==
    /\ input = << >>
    /\ typed = 0
    /\ result = Parse(<< >>)
    /\ pc = "parsed"
    /\ file = << >>
    /\ opts = NoOpts
    /\ rewritten = FALSE
    /\ visit = NoVisit
    /\ arg = << >>
    /\ quoted = << >>
    /\ unquoted = << >>
    /\ entry = NoEntry
    /\ lexed = NoLexed
    /\ run = NoRun
    /\ steps = 0

\* one more line of the text that parse_config is to be called with
TypeRunLine(line) ==
    /\ pc = "parsed"
    /\ typed < MaxRunLines
    /\ result.err \in Open
    /\ input' = input \o line
    /\ typed' = typed + 1
    /\ result' = Parse(input')
    /\ UNCHANGED <<pc, file, opts, rewritten, visit, arg, quoted, unquoted, entry, lexed, run, steps>>

\* parse_config(input) is called
StartParse ==
    /\ pc = "parsed"
    /\ run' = BeginParse(NextSnlToken(LexerInit(input), FALSE))
    /\ pc' = "run"
    /\ steps' = 0
    /\ UNCHANGED <<input, typed, result, file, opts, rewritten, visit, arg, quoted, unquoted,
                   entry, lexed>>

\* parse, the body of its first loop
CommentStep ==
    /\ run.pc = "comments"
    /\ steps < MaxIterations
    /\ run' = BeginComment(run, NextSnlToken(run.lex, FALSE))
    /\ UNCHANGED <<input, typed, result, pc, file, opts, rewritten, visit, arg, quoted,
                   unquoted, entry, lexed>>
    /\ steps' = steps + 1

\* parse, its second loop: its exit and the return, or its body up to the
\* loop of _parse_config
StatementStep ==
    /\ run.pc = "statements"
    /\ steps < MaxIterations
    /\ run' = IF IsEos(run.token)
              THEN Stop(run, ParseFinish(run.lex, run.comments, run.global_config,
                                         run.vdoms_config, run.assigned))
              ELSE IF run.token # kw_config THEN Stop(run, ParseFail("invalid entry", run.lex))
              ELSE EnterConfig(run)
    /\ UNCHANGED <<input, typed, result, pc, file, opts, rewritten, visit, arg, quoted,
                   unquoted, entry, lexed>>
    /\ steps' = steps + 1

\* _parse_config, the loop of an object: its body, or its exit and the return
ObjectStep ==
    /\ run.pc = "body"
    /\ steps < MaxIterations
    /\ Top(run.stack).loop = "object"
    /\ run' = IF run.token = kw_end THEN ExitConfig(run) ELSE Command(run)
    /\ UNCHANGED <<input, typed, result, pc, file, opts, rewritten, visit, arg, quoted,
                   unquoted, entry, lexed>>
    /\ steps' = steps + 1

\* _parse_config, the loop of a table: its body up to the loop of
\* _parse_table_entry, or its exit and the return
TableStep ==
    /\ run.pc = "body"
    /\ steps < MaxIterations
    /\ Top(run.stack).loop = "table"
    /\ run' = IF run.token = kw_end THEN ExitConfig(run) ELSE EnterEntry(run)
    /\ UNCHANGED <<input, typed, result, pc, file, opts, rewritten, visit, arg, quoted,
                   unquoted, entry, lexed>>
    /\ steps' = steps + 1

\* _parse_table_entry, its loop: its body, or its exit and the return
EntryStep ==
    /\ run.pc = "body"
    /\ steps < MaxIterations
    /\ Top(run.stack).loop = "entry"
    /\ run' = IF run.token = kw_next \/ (Top(run.stack).vdom /\ run.token = kw_end)
              THEN ExitEntry(run) ELSE Command(run)
    /\ UNCHANGED <<input, typed, result, pc, file, opts, rewritten, visit, arg, quoted,
                   unquoted, entry, lexed>>
    /\ steps' = steps + 1

\* the next step of the call in progress
RunStep == CommentStep \/ StatementStep \/ ObjectStep \/ TableStep \/ EntryStep

NextRun ==
    \/ \E line \in RunLines : TypeRunLine(line)
    \/ StartParse
    \/ CommentStep
    \/ StatementStep
    \/ ObjectStep
    \/ TableStep
    \/ EntryStep

\* parse_config is in one of its loops
Running == run.pc \in {"comments", "statements", "body"}

\* a call in progress executes the next iteration of its innermost loop
Iterates == Running /\ steps < MaxIterations /\ steps' = steps + 1

SpecRun == InitRun /\ [][NextRun]_vars /\ WF_steps(Iterates)

\* the characters of the stream that the lexer L has consumed: those read,
\* less the one put back
Consumed(L) == L.i - (IF L.char # << >> /\ ~IsEosChar(L.char[1]) THEN 1 ELSE 0)

\* the step consumes at least one character of the input
ConsumesInput == Consumed(run'.lex) > Consumed(run.lex)

\* the step pushes the end keyword of a vdom entry back and reads it again for
\* the loop of the enclosing table, which tests it next
RereadsEnd ==
    /\ Len(run'.lex.pushes) = Len(run.lex.pushes) + 1
    /\ run.token = kw_end
    /\ run'.token = kw_end
    /\ run'.pc = "body"
    /\ Top(run'.stack).loop = "table"

\* the step reads the end of the stream for the loop over the statements,
\* which exits next
ReadsEos == run'.pc = "statements" /\ IsEos(run'.token)

StepConsumes == Running => ConsumesInput \/ RereadsEnd \/ ReadsEos \/ run'.pc = "done"

\* the iterations executed are no more than the characters consumed, the
\* tokens read again, the end of the stream and the end of the parse
Variant == steps <= Consumed(run.lex) + Len(run.lex.pushes) + 2

\* between two steps no token is pushed back
SlotEmpty == run.lex.token = << >>

\* the steps end as parse does
SameOutcome == run.pc = "done" => run.out = result

\* C21: parse terminates for every input, by returning a Configuration or by
\* raising an error: every iteration of a parser loop consumes at least one
\* character of the input, reads the end of the stream, or ends the parse;
\* the only token read twice is the end keyword that a vdom entry pushes
\* back, and the loop of the enclosing table consumes it in the same step.
C21_Termination ==
    /\ Running ~> run.pc = "done"
    /\ [][StepConsumes]_vars
    /\ [](Variant /\ SlotEmpty /\ SameOutcome)

\* parse has returned a Configuration with a tenant after the end keyword of
\* its vdom entry was pushed back and read again
C21_Witness ==
    /\ run.pc = "done"
    /\ run.out.err = ""
    /\ Len(run.out.config.vdoms) > 0
    /\ Len(run.lex.pushes) > 0

(***************************************************************************)
(* The filter callback, node by node                                       *)
(***************************************************************************)
\* the calls of a traversal that the filter f makes make_config omit
Omitted(f, calls) ==
    {n \in 1..Len(calls) : SkipEntry(f, calls[n].item, calls[n].parents, 0)}

RECURSIVE Without(_, _, _)
\* lines, one per call, less those of the calls numbered in omitted; n is the
\* number of the first line
Without(lines, omitted, n) ==
    IF lines = << >> THEN << >>
    ELSE (IF n \in omitted THEN << >> ELSE <<lines[1]>>)
         \o Without(Tail(lines), omitted, n + 1)

\* the lines of the tree of root with the filter f are the lines without a
\* filter, one per call of the traversal, less those of the omitted calls
PerNode(f, root, calls) ==
    /\ Len(Emit("none", 0, root, << >>)) = Len(calls)
    /\ Emit(f, 0, root, << >>) = Without(Emit("none", 0, root, << >>), Omitted(f, calls), 1)

\* C22: filtering is per node.  The lines that make_config writes for a tree
\* with a filter are the lines it writes without a filter, with the same text
\* and the same indentation, less the line of every call that the filter
\* makes it omit: when the enter and leave lines of an Object or Table are
\* omitted, the lines of its children and deeper descendants are written
\* unless they are omitted themselves, and the lines of its siblings are
\* unchanged.
C22_PerNode ==
    pc = "written" =>
        \A root \in Roots(result.config) :
            PerNode(opts.f, root, Traverse(<< >>, root, << >>, << >>).calls)

\* write with the filter that keeps the leaves only wrote a set line two
\* levels down, and neither config nor edit lines
C22_Witness ==
    /\ pc = "written"
    /\ opts.f = "leaves"
    /\ ~HasVdom(result.config)
    /\ \E n \in 1..Len(SplitLines(file)) :
            StartsWith(SplitLines(file)[n], Spaces(8) \o kw_set \o <<SP>>)
    /\ \A n \in 1..Len(SplitLines(file)) :
            ~StartsWith(LStrip(SplitLines(file)[n]), kw_config)
            /\ ~StartsWith(LStrip(SplitLines(file)[n]), kw_edit)

(***************************************************************************)
(* parse_config on the text that write wrote                               *)
(***************************************************************************)
\* the step is parse_config on the text that write(include_comments=True)
\* wrote for the Configuration result.config, as it is
Reparsed == pc = "written" /\ pc' = "parsed" /\ input' = file

\* C23: for every text that parse accepts, with or without tenants, the text
\* that write(include_comments=True) writes for the parsed Configuration is
\* accepted by parse and gives an equal Configuration: the same comment list,
\* default tree and tenant mapping, keys in the same order, Sets with the
\* same parameters.
C23_ReparseStable ==
    [][Reparsed =>
        /\ result'.err = ""
        /\ result'.config.comments = result.config.comments
        /\ result'.config.root = result.config.root
        /\ result'.config.vdoms = result.config.vdoms]_vars

=============================================================================
